---- MODULE Spec2Model ----
(***************************************************************************)
(* The block-range scanner of monitor-scraper: AggregatedMetricsExporter    *)
(* (run / _run / get_and_process_aggregated_data / restore_from_database),  *)
(* the reconnection_counter decorator that wraps _run, the event filter's   *)
(* get_all_entries, the classifier (distribute_events,                      *)
(* distribute_events_by_blocks), decrease_range_of_blocks and the three     *)
(* tables of DatabaseManager the scanner writes.                            *)
(***************************************************************************)
EXTENDS Integers, Sequences, FiniteSets, TLC

\* ---------------------------------------------------------------- bounds
MaxBlock == 4        \* highest finalized block the chain reaches
MaxEventBlocks == 2  \* blocks of the chain that hold protocol events
MaxRange == 2        \* the configured MAX_RANGE_OF_BLOCKS of the scanner runs
MaxWindow == 1000    \* largest configured window of the shrink runs
MaxFaults == 1       \* provider faults (exceptions raised, stale handles) per run
MaxCrashes == 1      \* process crashes per run
NumUrls == 2         \* candidate endpoints in the ws_urls list
TickSecs == 100      \* seconds between two readings of the clock
MaxNow == 300        \* latest reading of the clock, in seconds
MaxRewards == 2      \* rows of one ledger handed to calculate_apr
MaxRows == 2         \* rows of the reward table in the runs of the DatabaseManager methods
MaxLogs == 2         \* logs of one block in the runs of the classifier
MaxLimit == 3        \* the largest number of blocks the provider is sure to accept in one log query
MaxHandles == 3      \* filter handles installed in a run of the ContractEventFilter methods

\* INITIAL_BLOCK_NUMBER_AGGREGATED_METRICS_EXPORTER
initial_block_num_aggregated_metrics == 1

VARIABLES
    chain,                    \* block number -> the logs of the protocol contract in that block
    head,                     \* number of the finalized head
    max_range_of_blocks,      \* service_params.max_range_of_blocks
    filters,                  \* the provider side: the filter handles of the connection
    main,                     \* main(): its position and locals once the threads are started
    scalar,                   \* ScalarMetricsExporter: its position in _run and self.initialized
    pc,                       \* position of the scanner thread
    call,                     \* which of the wrapper's two calls of func is running / next
    stop,                     \* self.stop
    from_block,               \* run(): from_block
    current_range_of_blocks,  \* run(): current_range_of_blocks
    to_block,                 \* get_and_process_aggregated_data: to_block
    events,                   \* get_and_process_aggregated_data: events (the classified logs)
    order,                    \* keys of distributed_events in iteration order
    idx,                      \* position of the for loop in order
    self,                     \* instance fields of AggregatedMetricsExporter
    aggregated_data,          \* table aggregated_data (sequence of rows)
    reward,                   \* table reward (sequence of rows)
    holder,                   \* table holder (set of addresses)
    connection,               \* generation of the scanner's chain connection
    alert_not_connected,      \* gauge alert_not_connected_aggregated_metrics_exporter
    outcome,                  \* how the latest call of _run returned
    caught,                   \* exception caught by the latest call of _run, with its raise site
    entry,                    \* history: AggregatedState when the call that is folding was entered
    nimbus_event_filter,      \* contracts_reader.nimbus_event_filter (a ContractEventFilter or None)
    rebuild,                  \* where restore_connection_to_parachain of the scanner is
    threads,                  \* main(): the poller threads, label -> position, stop flag, lock
    database_manager,         \* the shared DatabaseManager: its lock and its connection
    handler,                  \* stop_signal_handler: position and index in the threads list
    now,                      \* datetime.now(), in seconds
    prev_exception_occurred,  \* ReconnectionCounter.prev_exception_occurred
    alert_thread_is_failed,   \* gauge alert_thread_is_failed, by label
    wrapper,                  \* position of each loop in reconnection_counter's wrapper
    args,                     \* arguments of the function that is called on its own
    result,                   \* what that function returned
    faults,                   \* provider faults so far
    crashes                   \* process crashes so far

vars == <<chain, filters, main, scalar, head, max_range_of_blocks, pc, call, stop, from_block,
          current_range_of_blocks, to_block, events, order, idx, self,
          aggregated_data, reward, holder, connection, alert_not_connected,
          outcome, caught, entry, nimbus_event_filter, rebuild, threads,
          database_manager, handler, now, prev_exception_occurred,
          alert_thread_is_failed, wrapper, args, result, faults, crashes>>

cfgVars == <<chain, max_range_of_blocks, filters, main, scalar>>
mainVars == <<threads, database_manager, handler>>
counterVars == <<now, prev_exception_occurred, alert_thread_is_failed, wrapper>>
dbVars  == <<aggregated_data, reward, holder>>
fnVars == <<args, result>>
scannerVars == <<chain, filters, main, scalar, head, max_range_of_blocks, pc, call, stop, from_block,
                 current_range_of_blocks, to_block, events, order, idx, self,
                 aggregated_data, reward, holder, connection,
                 alert_not_connected, outcome, caught, entry,
                 nimbus_event_filter, rebuild, fnVars, faults, crashes>>

\* the provider side of a connection on which no filter was ever installed:
\* the id of the next handle, the handles that are installed, the handles an
\* eth_uninstallFilter was sent for
NoFilters == [next_id |-> 1, installed |-> {}, attempted |-> {}]

\* main() before its threads are started: need_to_be_initialized = 2,
\* initialized = 0, the metrics HTTP server is not started
NoMain == [pc |-> "start", thread |-> 1, initialized |-> 0, http_server |-> FALSE]

\* ScalarMetricsExporter.__init__: self.initialized = False
NoScalar == [pc |-> "new", initialized |-> FALSE]

\* ------------------------------------------------------------ the chain
\* The five event names, in the key order of the dict built by distribute_events.
EventKeys == <<"Deposited", "Losses", "Redeemed", "Rewards", "Transfer">>

EventNames == {EventKeys[i] : i \in 1..Len(EventKeys)}

BlockContents == {<<>>} \cup {<<k>> : k \in EventNames}

Amount(k) ==
    CASE k = "Deposited" -> 50
      [] k = "Redeemed"  -> 20
      [] k = "Rewards"   -> 10
      [] k = "Losses"    -> 5
      [] OTHER           -> 0

Balance == 110
Ledger == "L1"

\* receiver of the Transfer events of block b
Receiver(b) == b % 2

\* the raw logs of block b, in log-index order
Logs(b) ==
    [i \in 1..Len(chain[b]) |->
        [event |-> chain[b][i], blockNumber |-> b, logIndex |-> i,
         amount |-> Amount(chain[b][i]), receiver |-> Receiver(b)]]

RECURSIVE LogsIn(_, _)
LogsIn(lo, hi) == IF lo > hi THEN <<>> ELSE Logs(lo) \o LogsIn(lo + 1, hi)

RECURSIVE Reverse(_)
Reverse(s) == IF s = <<>> THEN <<>> ELSE Reverse(Tail(s)) \o <<Head(s)>>

\* what the provider answers to a log query over [lo, hi]
ProviderOrders == {"asc", "desc"}
get_logs(lo, hi, po) == IF po = "asc" THEN LogsIn(lo, hi) ELSE Reverse(LogsIn(lo, hi))


\* a sort that puts an entry before the entries of the same block
RECURSIVE InsertByBlock_before_equal(_, _)
InsertByBlock_before_equal(e, s) ==
    IF s = <<>> THEN <<e>>
    ELSE IF e.blockNumber <= Head(s).blockNumber THEN <<e>> \o s
    ELSE <<Head(s)>> \o InsertByBlock_before_equal(e, Tail(s))

\* ------------------------------------------------ ContractEventFilter
\* sorted(entries, key=blockNumber): a stable insertion sort
RECURSIVE InsertByBlock(_, _)
InsertByBlock(e, s) ==
    IF s = <<>> THEN <<e>>
    ELSE IF e.blockNumber < Head(s).blockNumber THEN <<e>> \o s
    ELSE <<Head(s)>> \o InsertByBlock(e, Tail(s))

RECURSIVE sorted(_)
sorted(entries) ==
    IF entries = <<>> THEN <<>>
    ELSE InsertByBlock(entries[Len(entries)], sorted(SubSeq(entries, 1, Len(entries) - 1)))

\* What the two attempts of the for loop of get_all_entries leave in `entries`:
\* attempts is the outcome of each call of filter.get_all_entries(), "ok" or
\* "stale" (a ValueError other than the too-many-results one).
Attempts == {<<"ok">>, <<"stale", "ok">>, <<"stale", "stale">>}

get_all_entries(lo, hi, po, attempts) ==
    LET entries == IF \E i \in 1..Len(attempts) : attempts[i] = "ok"
                   THEN get_logs(lo, hi, po)
                   ELSE <<>>
    IN sorted(entries)

\* ------------------------------------------------ the filter object's fields
\* contracts_reader.nimbus_event_filter before the first get_nimbus_events
NoFilter == <<>>

\* get_nimbus_events, up to get_all_entries: a new ContractEventFilter for
\* [lo, hi] on the connection w3, or update_filter_range(lo, hi) of the one
\* there is; either way _init_filter installs a provider-side filter with
\* fromBlock = lo, toBlock = hi on the filter's own w3
filter_for_range(f, lo, hi, w3) ==
    IF f = NoFilter
    THEN [from_block |-> lo, to_block |-> hi, fromBlock |-> lo, toBlock |-> hi,
          uninstalled |-> FALSE, w3 |-> w3]
    ELSE [f EXCEPT !.from_block = lo, !.to_block = hi,
                   !.fromBlock = lo, !.toBlock = hi, !.uninstalled = FALSE]

\* get_all_entries, after the loop: uninstall, and the range moved past the
\* last returned log
filter_after_entries(f, sorted_events) ==
    IF sorted_events = <<>>
    THEN [f EXCEPT !.uninstalled = TRUE]
    ELSE LET next_block == sorted_events[Len(sorted_events)].blockNumber + 1
         IN [f EXCEPT !.uninstalled = TRUE,
                      !.from_block = next_block,
                      !.to_block = IF next_block > f.to_block THEN next_block ELSE f.to_block]

\* get_all_entries raising exc_type: a timeout or a "more than 10000 results"
\* error is raised after self.uninstall(), any other exception as it comes
filter_after_raise(f, exc_type) ==
    IF exc_type \in {"AsyncioTimeoutError", "TooManyResults"}
    THEN [f EXCEPT !.uninstalled = TRUE]
    ELSE f

\* ------------------------------------------------------ the classifier
\* distribute_events: {} for no logs, else the five lists keyed by event name
distribute_events(events_mixed) ==
    IF events_mixed = <<>> THEN <<>>
    ELSE [i \in 1..Len(EventKeys) |->
            SelectSeq(events_mixed, LAMBDA e : e.event = EventKeys[i])]

\* the block numbers of the lists of `events`, list after list in key order
RECURSIVE BlocksOf(_, _)
BlocksOf(classified, i) ==
    IF i > Len(classified) THEN <<>>
    ELSE [j \in 1..Len(classified[i]) |-> classified[i][j].blockNumber] \o BlocksOf(classified, i + 1)

RECURSIVE FirstSeen(_, _)
FirstSeen(bs, seen) ==
    IF bs = <<>> THEN <<>>
    ELSE IF Head(bs) \in seen THEN FirstSeen(Tail(bs), seen)
    ELSE <<Head(bs)>> \o FirstSeen(Tail(bs), seen \cup {Head(bs)})

\* distribute_events_by_blocks: the keys of the returned dict, in insertion order
distribute_events_by_blocks(classified) == FirstSeen(BlocksOf(classified, 1), {})

\* distributed_events[block_number][key]
EventsOf(classified, block_number, key) ==
    IF classified = <<>> THEN <<>>
    ELSE LET i == CHOOSE i \in 1..Len(EventKeys) : EventKeys[i] = key
         IN SelectSeq(classified[i], LAMBDA e : e.blockNumber = block_number)

\* ------------------------------------------------------------- utils
\* decrease_range_of_blocks; int(range_current * 0.1) is range_current \div 10
\* the shrink without the step of one block for the windows below 10
decrease_range_of_blocks_no_step(range_current) ==
    IF range_current - (range_current \div 10) > 1
    THEN range_current - (range_current \div 10) ELSE 1

\* a shrink that leaves the window as it is
decrease_range_of_blocks_kept(range_current) == range_current

decrease_range_of_blocks(range_current) ==
    LET range_new == IF range_current - (range_current \div 10) > 1
                     THEN range_current - (range_current \div 10) ELSE 1
    IN IF range_new = range_current /\ range_new > 1 THEN range_new - 1 ELSE range_new

\* ---------------------------------------------- exceptions and _run's handler
EXPECTED_NETWORK_EXCEPTIONS == {"ConnectionClosedError"}

ExceptionTypes == {"ConnectionClosedError", "AsyncioTimeoutError", "TooManyResults", "KeyError"}

\* an except clause that knows no "query returned more than" error
ExceptBranch_no_overflow(exc_type) ==
    IF exc_type \in EXPECTED_NETWORK_EXCEPTIONS THEN "expected"
    ELSE IF exc_type = "AsyncioTimeoutError" THEN "decrease"
    ELSE "unexpected"

\* the if / elif / else of the except clause of _run
ExceptBranch(exc_type) ==
    IF exc_type \in EXPECTED_NETWORK_EXCEPTIONS THEN "expected"
    ELSE IF exc_type \in {"AsyncioTimeoutError", "TooManyResults"} THEN "decrease"
    ELSE "unexpected"


\* the exceptions each call site of a poll cycle can raise
RaisedAt(site) ==
    CASE site = "head"    -> {"ConnectionClosedError", "KeyError"}
      [] site = "fetch"   -> {"ConnectionClosedError", "AsyncioTimeoutError", "TooManyResults"}
      [] site = "receipt" -> {"ConnectionClosedError", "AsyncioTimeoutError"}
      [] site = "ledger"  -> {"ConnectionClosedError", "AsyncioTimeoutError", "KeyError"}

NoException == <<"none", "none">>

\* ------------------------------------------- AggregatedMetricsExporter
\* __init__
InitSelf ==
    [deposited |-> 0, deposited_events_num |-> 0, redeemed |-> 0,
     redeemed_events_num |-> 0, last_block_number_with_events |-> -1,
     rewards |-> 0, losses |-> 0, holders_number |-> 0, initialized |-> FALSE]

\* the five fields of the checkpoint
AggregatedState(s) ==
    [deposited |-> s.deposited, deposited_events_num |-> s.deposited_events_num,
     redeemed |-> s.redeemed, redeemed_events_num |-> s.redeemed_events_num,
     last_block_number_with_events |-> s.last_block_number_with_events]

NoEntry == <<>>

RECURSIVE SumAmounts(_)
SumAmounts(evs) == IF evs = <<>> THEN 0 ELSE Head(evs).amount + SumAmounts(Tail(evs))

\* _process_deposited_and_redeemed_events
process_deposited_and_redeemed_events(s, deposited_events, redeemed_events) ==
    [s EXCEPT !.deposited_events_num = @ + Len(deposited_events),
              !.redeemed_events_num = @ + Len(redeemed_events),
              !.deposited = @ + SumAmounts(deposited_events),
              !.redeemed = @ + SumAmounts(redeemed_events)]

\* _process_rewards_and_losses_events: the fields it adds to ...
process_rewards_and_losses_events(s, evs) ==
    [s EXCEPT !.rewards = @ + SumAmounts(SelectSeq(evs, LAMBDA e : e.event = "Rewards")),
              !.losses = @ + SumAmounts(SelectSeq(evs, LAMBDA e : e.event # "Rewards"))]

\* ... and the list it returns, turned into the rows add_reward inserts for block_number
RewardRows(evs, block_number) ==
    [i \in 1..Len(evs) |->
        [ledger |-> Ledger,
         reward |-> IF evs[i].event = "Rewards" THEN evs[i].amount ELSE 0 - evs[i].amount,
         balance |-> Balance,
         block |-> block_number]]

\* _process_transfer_events: the holder table after add_holder of every receiver
Receivers(transfer_events) == {transfer_events[i].receiver : i \in 1..Len(transfer_events)}

\* the entry written by update_aggregated_data for block_number
CheckpointRow(s, block_number) ==
    [deposited |-> s.deposited, deposited_events_num |-> s.deposited_events_num,
     redeemed |-> s.redeemed, redeemed_events_num |-> s.redeemed_events_num,
     last_block_number_with_events |-> block_number]

RECURSIVE SumRewards(_, _)
SumRewards(rows, positive) ==
    IF rows = <<>> THEN 0
    ELSE (IF (positive /\ Head(rows).reward > 0) \/ (~positive /\ Head(rows).reward < 0)
          THEN Head(rows).reward ELSE 0) + SumRewards(Tail(rows), positive)

\* restore_from_database: the instance fields it leaves, on a fresh instance
\* a reload that leaves out one column of the row
restore_from_database_partial(s, data, rewards, holders) ==
    LET a == IF data = <<>>
             THEN [s EXCEPT !.deposited = 0, !.deposited_events_num = 0,
                            !.redeemed = 0, !.redeemed_events_num = 0]
             ELSE [s EXCEPT !.deposited = data[1].deposited,
                            !.deposited_events_num = data[1].deposited_events_num,
                            !.redeemed = data[1].redeemed,
                            !.last_block_number_with_events = data[1].last_block_number_with_events]
    IN [a EXCEPT !.holders_number = Cardinality(holders),
                 !.rewards = s.rewards + SumRewards(rewards, TRUE),
                 !.losses = s.losses + SumRewards(rewards, FALSE)]

restore_from_database(s, data, rewards, holders) ==
    LET a == IF data = <<>>
             THEN [s EXCEPT !.deposited = 0, !.deposited_events_num = 0,
                            !.redeemed = 0, !.redeemed_events_num = 0]
             ELSE [s EXCEPT !.deposited = data[1].deposited,
                            !.deposited_events_num = data[1].deposited_events_num,
                            !.redeemed = data[1].redeemed,
                            !.redeemed_events_num = data[1].redeemed_events_num,
                            !.last_block_number_with_events = data[1].last_block_number_with_events]
    IN [a EXCEPT !.holders_number = Cardinality(holders),
                 !.rewards = s.rewards + SumRewards(rewards, TRUE),
                 !.losses = s.losses + SumRewards(rewards, FALSE)]

\* a recovery that resumes at the checkpointed block itself
restore_from_block_again(data) ==
    IF data = <<>> THEN initial_block_num_aggregated_metrics
    ELSE data[1].last_block_number_with_events

\* restore_from_database: the block it returns
restore_from_block(data) ==
    IF data = <<>> THEN initial_block_num_aggregated_metrics
    ELSE data[1].last_block_number_with_events + 1


\* ------------------------------------- restore_connection_to_parachain
NoRebuild == <<>>

\* a rebuild starts with create_interface when a substrate interface is
\* passed, with create_provider otherwise; either starts at the first url
start_rebuild(substrate) ==
    IF substrate THEN <<"interface", 1>> ELSE <<"provider", 1>>

\* for url in urls, inside while True: after the last url the list is gone
\* through again (after sleep(timeout))
next_url(r) == <<r[1], IF r[2] = NumUrls THEN 1 ELSE r[2] + 1>>

interface_connected(r) == <<"provider", 1>>

\* ------------------------------------------------- main(): the threads
\* the labels of the three loops: the docstrings of their _run
ThreadList == <<"AggregatedMetricsExporter", "ScalarMetricsExporter", "ValidatorsInfoExporter">>
Threads == {ThreadList[i] : i \in 1..Len(ThreadList)}

InitThreads ==
    /\ threads = [t \in Threads |->
                    [pc |-> "new", stop |-> FALSE, lock |-> "free", query |-> FALSE,
                     rebuild |-> NoRebuild]]
    /\ database_manager = [lock |-> "free", conn |-> "open"]
    /\ handler = [pc |-> "idle", i |-> 1]

\* the decorator's dict is empty, no gauge is set, every loop is about to be
\* called by its run()
InitCounter ==
    /\ now = 0
    /\ prev_exception_occurred = [t \in Threads |-> -1]
    /\ alert_thread_is_failed = [t \in Threads |-> FALSE]
    /\ wrapper = [t \in Threads |-> "call"]

\* no function is called on its own
NoArgs == <<>>
NoResult == <<>>

InitFn ==
    /\ args = NoArgs
    /\ result = NoResult

\* ------------------------------------------------------------ initial state
Chains ==
    {c \in [1..MaxBlock -> BlockContents] :
        Cardinality({b \in 1..MaxBlock : c[b] # <<>>}) <= MaxEventBlocks}

InitBase ==
    /\ chain \in Chains
    /\ head = initial_block_num_aggregated_metrics
    /\ max_range_of_blocks = MaxRange
    /\ filters = NoFilters
    /\ main = NoMain
    /\ scalar = NoScalar
    /\ pc = "init"
    /\ call = 1
    /\ stop = FALSE
    /\ from_block = initial_block_num_aggregated_metrics
    /\ current_range_of_blocks = max_range_of_blocks
    /\ to_block = 0
    /\ events = <<>>
    /\ order = <<>>
    /\ idx = 0
    /\ self = InitSelf
    /\ aggregated_data = <<>>
    /\ reward = <<>>
    /\ holder = {}
    /\ connection = 0
    /\ alert_not_connected = FALSE
    /\ outcome = "none"
    /\ caught = NoException
    /\ entry = NoEntry
    /\ nimbus_event_filter = NoFilter
    /\ rebuild = NoRebuild
    /\ InitThreads
    /\ InitCounter
    /\ faults = 0
    /\ crashes = 0

Init ==
    /\ InitBase
    /\ InitFn

\* -------------------------------------------------------------- environment
\* the chain finalizes one more block
NewBlock ==
    /\ head < MaxBlock
    /\ head' = head + 1
    /\ UNCHANGED <<cfgVars, mainVars, counterVars, fnVars, rebuild, nimbus_event_filter, pc, call, stop, from_block, current_range_of_blocks,
                   to_block, events, order, idx, self, dbVars, connection,
                   alert_not_connected, outcome, caught, entry, faults, crashes>>

\* stop_signal_handler: thread.stop = True
StopSignal ==
    /\ pc \notin {"init", "exited"}
    /\ ~stop
    /\ stop' = TRUE
    /\ UNCHANGED <<cfgVars, mainVars, counterVars, fnVars, rebuild, nimbus_event_filter, head, pc, call, from_block, current_range_of_blocks,
                   to_block, events, order, idx, self, dbVars, connection,
                   alert_not_connected, outcome, caught, entry, faults, crashes>>

\* the process dies and is started again: the tables stay, the memory does not
Crash ==
    /\ pc \notin {"init", "exited"}
    /\ crashes < MaxCrashes
    /\ crashes' = crashes + 1
    /\ pc' = "init"
    /\ call' = 1
    /\ stop' = FALSE
    /\ from_block' = initial_block_num_aggregated_metrics
    /\ current_range_of_blocks' = max_range_of_blocks
    /\ to_block' = 0
    /\ events' = <<>>
    /\ order' = <<>>
    /\ idx' = 0
    /\ self' = InitSelf
    /\ connection' = 0
    /\ alert_not_connected' = FALSE
    /\ outcome' = "none"
    /\ caught' = NoException
    /\ entry' = NoEntry
    /\ nimbus_event_filter' = NoFilter
    /\ rebuild' = NoRebuild
    /\ UNCHANGED <<cfgVars, mainVars, counterVars, fnVars, head, dbVars, faults>>

\* ------------------------------------------------------------------- run()
\* run(), up to the while loop: restore_from_database, initialized = True
RunStart ==
    /\ pc = "init"
    /\ self' = [restore_from_database(self, aggregated_data, reward, holder)
                    EXCEPT !.initialized = TRUE]
    /\ from_block' = restore_from_block(aggregated_data)
    /\ current_range_of_blocks' = max_range_of_blocks
    /\ pc' = "top"
    /\ call' = 1
    /\ UNCHANGED <<cfgVars, mainVars, counterVars, fnVars, rebuild, nimbus_event_filter, head, stop, to_block, events, order, idx, dbVars,
                   connection, alert_not_connected, outcome, caught, entry,
                   faults, crashes>>

\* A call of _run returns (f, w). reconnection_counter's wrapper calls func twice:
\* it drops what the first call returns and returns what the second returns,
\* which run() assigns to from_block, current_range_of_blocks.
Return(f, w, how) ==
    /\ pc' = "top"
    /\ outcome' = how
    /\ IF call = 1
       THEN /\ call' = 2
            /\ UNCHANGED <<from_block, current_range_of_blocks>>
       ELSE /\ call' = 1
            /\ from_block' = f
            /\ current_range_of_blocks' = w
    /\ to_block' = 0
    /\ events' = <<>>
    /\ order' = <<>>
    /\ idx' = 0
    /\ entry' = NoEntry

\* the except clause of _run, for an exception raised at `site`
Except(exc_type, site) ==
    /\ caught' = <<exc_type, site>>
    /\ IF ExceptBranch(exc_type) = "decrease"
       THEN /\ Return(from_block, decrease_range_of_blocks(current_range_of_blocks), "decreased")
            /\ UNCHANGED <<alert_not_connected, rebuild>>
       ELSE /\ pc' = "reconnect"
            /\ alert_not_connected' = TRUE
            /\ rebuild' = start_rebuild(TRUE)
            /\ outcome' = "reconnecting"
            /\ to_block' = 0
            /\ events' = <<>>
            /\ order' = <<>>
            /\ idx' = 0
            /\ entry' = NoEntry
            /\ UNCHANGED <<call, from_block, current_range_of_blocks>>

\* a to_block that is not capped by the finalized head
ToBlock_uncapped ==
    from_block + current_range_of_blocks

\* to_block of _run
ToBlock ==
    IF head < from_block + current_range_of_blocks THEN head
    ELSE from_block + current_range_of_blocks

\* _run: the stop flag is set, sys.exit()
RunExit ==
    /\ pc = "top"
    /\ stop
    /\ pc' = "exited"
    /\ UNCHANGED <<cfgVars, mainVars, counterVars, fnVars, rebuild, nimbus_event_filter, head, call, stop, from_block, current_range_of_blocks,
                   to_block, events, order, idx, self, dbVars, connection,
                   alert_not_connected, outcome, caught, entry, faults, crashes>>

\* _run: reading the finalized head raises
RunHeadRaise ==
    /\ pc = "top"
    /\ ~stop
    /\ faults < MaxFaults
    /\ faults' = faults + 1
    /\ \E exc_type \in RaisedAt("head") : Except(exc_type, "head")
    /\ UNCHANGED <<cfgVars, mainVars, counterVars, fnVars, nimbus_event_filter, head, stop, self, dbVars, connection, crashes>>

\* _run: block_number <= from_block, sleep and return
RunSleep ==
    /\ pc = "top"
    /\ ~stop
    /\ head <= from_block
    /\ Return(from_block, current_range_of_blocks, "sleep")
    /\ caught' = NoException
    /\ UNCHANGED <<cfgVars, mainVars, counterVars, fnVars, rebuild, nimbus_event_filter, head, stop, self, dbVars, connection,
                   alert_not_connected, faults, crashes>>

\* _run -> get_nimbus_events: the filter install or the log query raises exc_type
FetchRaises(exc_type) ==
    /\ pc = "top"
    /\ ~stop
    /\ head > from_block
    /\ Except(exc_type, "fetch")
    /\ nimbus_event_filter' =
          filter_after_raise(
              filter_for_range(nimbus_event_filter, from_block, ToBlock, connection), exc_type)
    /\ UNCHANGED <<cfgVars, mainVars, counterVars, fnVars, head, stop, self, dbVars, connection, crashes>>

RunFetchRaise ==
    /\ faults < MaxFaults
    /\ faults' = faults + 1
    /\ \E exc_type \in RaisedAt("fetch") : FetchRaises(exc_type)

\* _run -> distribute_events: fetching a transaction receipt raises
RunReceiptRaise ==
    /\ pc = "top"
    /\ ~stop
    /\ head > from_block
    /\ faults < MaxFaults
    /\ faults' = faults + 1
    /\ \E po \in ProviderOrders, attempts \in Attempts :
          /\ get_all_entries(from_block, ToBlock, po, attempts) # <<>>
          /\ nimbus_event_filter' =
                filter_after_entries(
                    filter_for_range(nimbus_event_filter, from_block, ToBlock, connection),
                    get_all_entries(from_block, ToBlock, po, attempts))
    /\ \E exc_type \in RaisedAt("receipt") : Except(exc_type, "receipt")
    /\ UNCHANGED <<cfgVars, mainVars, counterVars, fnVars, head, stop, self, dbVars, connection, crashes>>

\* _run -> get_and_process_aggregated_data: no events are returned for the
\* range, the for loop has nothing to visit, to_block + 1 is returned
RunNoEvents ==
    /\ pc = "top"
    /\ ~stop
    /\ head > from_block
    /\ \E po \in ProviderOrders, attempts \in Attempts :
          /\ distribute_events_by_blocks(
                distribute_events(get_all_entries(from_block, ToBlock, po, attempts))) = <<>>
          /\ nimbus_event_filter' =
                filter_after_entries(
                    filter_for_range(nimbus_event_filter, from_block, ToBlock, connection),
                    get_all_entries(from_block, ToBlock, po, attempts))
          /\ IF attempts = <<"stale", "stale">>
             THEN faults < MaxFaults /\ faults' = faults + 1
             ELSE UNCHANGED faults
    /\ Return(ToBlock + 1, max_range_of_blocks, "processed")
    /\ caught' = NoException
    /\ UNCHANGED <<cfgVars, mainVars, counterVars, fnVars, rebuild, head, stop, self, dbVars, connection,
                   alert_not_connected, crashes>>

\* _run -> get_and_process_aggregated_data: the events of the range are fetched,
\* classified and grouped by block; the for loop starts
RunFetch ==
    /\ pc = "top"
    /\ ~stop
    /\ head > from_block
    /\ \E po \in ProviderOrders, attempts \in Attempts :
          LET classified == distribute_events(get_all_entries(from_block, ToBlock, po, attempts))
          IN /\ distribute_events_by_blocks(classified) # <<>>
             /\ events' = classified
             /\ nimbus_event_filter' =
                   filter_after_entries(
                       filter_for_range(nimbus_event_filter, from_block, ToBlock, connection),
                       get_all_entries(from_block, ToBlock, po, attempts))
             /\ order' = distribute_events_by_blocks(classified)
    /\ to_block' = ToBlock
    /\ idx' = 1
    /\ pc' = "fold"
    /\ entry' = AggregatedState(self)
    /\ outcome' = "processing"
    /\ caught' = NoException
    /\ UNCHANGED <<cfgVars, mainVars, counterVars, fnVars, rebuild, head, call, stop, from_block, current_range_of_blocks,
                   self, dbVars, connection, alert_not_connected, faults, crashes>>

\* one pass of the for loop, up to update_aggregated_data: the events of block
\* order[idx] are folded into the instance fields, the receivers added to the
\* holder table, the checkpoint row replaced
FoldCheckpoint ==
    /\ pc = "fold"
    /\ LET block_number == order[idx]
           s1 == process_deposited_and_redeemed_events(self,
                    EventsOf(events, block_number, "Deposited"),
                    EventsOf(events, block_number, "Redeemed"))
           s2 == process_rewards_and_losses_events(s1,
                    EventsOf(events, block_number, "Rewards")
                      \o EventsOf(events, block_number, "Losses"))
           holders == holder \cup Receivers(EventsOf(events, block_number, "Transfer"))
       IN /\ holder' = holders
          /\ self' = [s2 EXCEPT !.holders_number = Cardinality(holders)]
          /\ aggregated_data' = <<CheckpointRow(s2, block_number)>>
    /\ pc' = "ledger"
    /\ UNCHANGED <<cfgVars, mainVars, counterVars, fnVars, rebuild, nimbus_event_filter, head, call, stop, from_block, current_range_of_blocks,
                   to_block, events, order, idx, reward, connection,
                   alert_not_connected, outcome, caught, entry, faults, crashes>>

\* the reward table after the add_reward calls of the pass for order[idx]
RewardAdded ==
    reward \o RewardRows(EventsOf(events, order[idx], "Rewards")
                           \o EventsOf(events, order[idx], "Losses"), order[idx])

\* the rest of the pass: add_reward for every reward, get_ledger_addresses,
\* last_block_number_with_events = block_number; after the last pass
\* get_and_process_aggregated_data returns to_block + 1 and _run resets the range
FoldLedger ==
    /\ pc = "ledger"
    /\ reward' = RewardAdded
    /\ self' = [self EXCEPT !.last_block_number_with_events = order[idx]]
    /\ IF idx < Len(order)
       THEN /\ idx' = idx + 1
            /\ pc' = "fold"
            /\ UNCHANGED <<call, from_block, current_range_of_blocks, to_block,
                           events, order, outcome, entry>>
       ELSE Return(to_block + 1, max_range_of_blocks, "processed")
    /\ UNCHANGED <<cfgVars, mainVars, counterVars, fnVars, rebuild, nimbus_event_filter, head, stop, aggregated_data, holder, connection,
                   alert_not_connected, caught, faults, crashes>>

\* the rest of the pass when get_ledger_addresses raises after the add_reward calls
FoldLedgerRaise ==
    /\ pc = "ledger"
    /\ faults < MaxFaults
    /\ faults' = faults + 1
    /\ reward' = RewardAdded
    /\ \E exc_type \in RaisedAt("ledger") : Except(exc_type, "ledger")
    /\ UNCHANGED <<cfgVars, mainVars, counterVars, fnVars, nimbus_event_filter, head, stop, self, aggregated_data, holder, connection, crashes>>

\* restore_connection_to_parachain: the endpoint that is tried does not
\* answer, the loop goes on with the next one
ReconnectRetry ==
    /\ pc = "reconnect"
    /\ rebuild' = next_url(rebuild)
    /\ UNCHANGED <<cfgVars, mainVars, counterVars, fnVars, nimbus_event_filter, head, pc, call,
                   stop, from_block, current_range_of_blocks, to_block, events,
                   order, idx, self, dbVars, connection, alert_not_connected,
                   outcome, caught, entry, faults, crashes>>

\* restore_connection_to_parachain: create_interface has connected the
\* substrate interface, create_provider starts
ReconnectInterface ==
    /\ pc = "reconnect"
    /\ rebuild[1] = "interface"
    /\ rebuild' = interface_connected(rebuild)
    /\ UNCHANGED <<cfgVars, mainVars, counterVars, fnVars, nimbus_event_filter, head, pc, call,
                   stop, from_block, current_range_of_blocks, to_block, events,
                   order, idx, self, dbVars, connection, alert_not_connected,
                   outcome, caught, entry, faults, crashes>>

\* the except clause after the gauge is set, once create_provider has
\* connected: initialize_contracts, the gauge is cleared, _run returns its
\* arguments
Reconnect ==
    /\ pc = "reconnect"
    /\ rebuild[1] = "provider"
    /\ rebuild' = NoRebuild
    /\ connection' = connection + 1
    /\ alert_not_connected' = FALSE
    /\ Return(from_block, current_range_of_blocks, "reconnected")
    /\ UNCHANGED <<cfgVars, mainVars, counterVars, fnVars, nimbus_event_filter, head, stop, self, dbVars, caught, faults, crashes>>

Next ==
    \/ NewBlock
    \/ StopSignal
    \/ Crash
    \/ RunStart
    \/ RunExit
    \/ RunHeadRaise
    \/ RunSleep
    \/ RunFetchRaise
    \/ RunReceiptRaise
    \/ RunNoEvents
    \/ RunFetch
    \/ FoldCheckpoint
    \/ FoldLedger
    \/ FoldLedgerRaise
    \/ ReconnectRetry
    \/ ReconnectInterface
    \/ Reconnect

Spec == Init /\ [][Next]_vars


\* ------------------------------------------------- the window-shrink runs
\* _run with the provider refusing every log query as too large: the inputs are
\* the configured maximum and the window that repeated signals leave
RunRangeTooLarge ==
    /\ UNCHANGED faults
    /\ \E exc_type \in {t \in RaisedAt("fetch") : ExceptBranch(t) = "decrease"} :
          FetchRaises(exc_type)

InitShrink ==
    /\ chain = [b \in 1..MaxBlock |-> <<>>]
    /\ head = initial_block_num_aggregated_metrics + 1
    /\ max_range_of_blocks \in 1..MaxWindow
    /\ filters = NoFilters
    /\ main = NoMain
    /\ scalar = NoScalar
    /\ pc = "top"
    /\ call = 1
    /\ stop = FALSE
    /\ from_block = initial_block_num_aggregated_metrics
    /\ current_range_of_blocks = max_range_of_blocks
    /\ to_block = 0
    /\ events = <<>>
    /\ order = <<>>
    /\ idx = 0
    /\ self = [InitSelf EXCEPT !.initialized = TRUE]
    /\ aggregated_data = <<>>
    /\ reward = <<>>
    /\ holder = {}
    /\ connection = 0
    /\ alert_not_connected = FALSE
    /\ outcome = "none"
    /\ caught = NoException
    /\ entry = NoEntry
    /\ nimbus_event_filter = NoFilter
    /\ rebuild = NoRebuild
    /\ InitThreads
    /\ InitCounter
    /\ InitFn
    /\ faults = 0
    /\ crashes = 0

NextShrink == RunRangeTooLarge

SpecShrink == InitShrink /\ [][NextShrink]_vars

\* ------------------------------------- the three threads and the handler
\* Positions of a thread:
\*   AggregatedMetricsExporter: restore (run: restore_from_database), top and
\*     check (_run: with self.lock / if self.stop), head, sleep, fetch, fold,
\*     persist, rebuild;
\*   ScalarMetricsExporter: head (_run reads the finalized heads), sleep, top
\*     and check (handle_block_*: with self.lock / if self.stop), work, rebuild;
\*   ValidatorsInfoExporter: work (_run collects the validators), persist
\*     (add_validators_info), top and check (_wait: with self.lock /
\*     if self.stop), wait, rebuild.
Scanner == ThreadList[1]
Scalar == ThreadList[2]
Validators == ThreadList[3]

\* the first position of run()
FirstPc(t) ==
    IF t = Scanner THEN "restore" ELSE IF t = Scalar THEN "head" ELSE "work"

\* the position that follows a stop check that found the flag unset
AfterCheck(t) ==
    IF t = Scanner THEN "head" ELSE IF t = Scalar THEN "work" ELSE "wait"

\* the steps of a thread that touch neither a lock nor the datastore
NextPcs(t, p) ==
    IF t = Scanner
    THEN CASE p = "head"  -> {"sleep", "fetch"}
           [] p = "sleep" -> {"top"}
           [] p = "fetch" -> {"fold", "top"}
           [] p = "fold"  -> {"persist"}
           [] OTHER       -> {}
    ELSE IF t = Scalar
    THEN CASE p = "head"  -> {"sleep", "top"}
           [] p = "sleep" -> {"head"}
           [] OTHER       -> {}
    ELSE CASE p = "wait"  -> {"top", "work"}
           [] p = "work"  -> {"persist"}
           [] OTHER       -> {}

\* the positions at which a thread calls a method of DatabaseManager, with the
\* positions that follow the call
AfterQuery(t, p) ==
    IF t = Scanner
    THEN CASE p = "restore" -> {"restore", "top"}
           [] p = "fold"    -> {"persist"}
           [] p = "persist" -> {"persist", "fold", "top"}
           [] OTHER         -> {}
    ELSE IF t = Scalar
    THEN CASE p = "work"    -> {"work", "sleep"}
           [] OTHER         -> {}
    ELSE CASE p = "persist" -> {"top"}
           [] OTHER         -> {}

\* the positions inside the try block at which a chain call can raise
FaultSites(t) ==
    IF t = Scanner THEN {"head", "fetch", "fold", "persist"}
    ELSE IF t = Scalar THEN {"head", "work"}
    ELSE {"work"}

\* the position at which the loop goes on after the except clause
AfterRebuild(t) ==
    IF t = Scanner THEN "top" ELSE IF t = Scalar THEN "head" ELSE "work"

\* Thread.is_alive()
is_alive(t) == threads[t].pc \notin {"new", "exited"}

\* main(): for thread in threads: thread.start(); sys.exit of the handler
\* ends main(), so no thread is started once a signal has been received
ThreadStart(t) ==
    /\ handler.pc = "idle"
    /\ threads[t].pc = "new"
    /\ \A i \in 1..Len(ThreadList) :
          (\E j \in 1..Len(ThreadList) : j > i /\ ThreadList[j] = t)
             => threads[ThreadList[i]].pc # "new"
    /\ threads' = [threads EXCEPT ![t].pc = FirstPc(t)]
    /\ UNCHANGED <<scannerVars, counterVars, database_manager, handler>>

\* a Lock that is not acquired
Lock_not_acquired(t) ==
    /\ threads[t].pc = "top"
    /\ threads' = [threads EXCEPT ![t].pc = "check"]
    /\ UNCHANGED <<scannerVars, counterVars, database_manager, handler>>

\* with self.lock:
Lock(t) ==
    /\ threads[t].pc = "top"
    /\ threads[t].lock = "free"
    /\ threads' = [threads EXCEPT ![t].pc = "check", ![t].lock = t]
    /\ UNCHANGED <<scannerVars, counterVars, database_manager, handler>>

\* if self.stop: sys.exit()
ExitOnStop(t) ==
    /\ threads[t].pc = "check"
    /\ threads[t].stop
    /\ threads' = [threads EXCEPT ![t].pc = "exited", ![t].lock = "free"]
    /\ UNCHANGED <<scannerVars, counterVars, database_manager, handler>>

\* if self.stop: the flag is not set, the with block is left
PassCheck(t) ==
    /\ threads[t].pc = "check"
    /\ ~threads[t].stop
    /\ threads' = [threads EXCEPT ![t].pc = AfterCheck(t), ![t].lock = "free"]
    /\ UNCHANGED <<scannerVars, counterVars, database_manager, handler>>

\* a step of the loop between two positions
Step(t) ==
    /\ \E p \in NextPcs(t, threads[t].pc) :
          threads' = [threads EXCEPT ![t].pc = p]
    /\ UNCHANGED <<scannerVars, counterVars, database_manager, handler>>

\* a method of DatabaseManager that runs its query without the lock
DbAcquire_unlocked(t) ==
    /\ AfterQuery(t, threads[t].pc) # {}
    /\ ~threads[t].query
    /\ threads' = [threads EXCEPT ![t].query = TRUE]
    /\ database_manager' = [database_manager EXCEPT !.lock = t]
    /\ UNCHANGED <<scannerVars, counterVars, handler>>

\* a method of DatabaseManager: with self.lock:
DbAcquire(t) ==
    /\ AfterQuery(t, threads[t].pc) # {}
    /\ ~threads[t].query
    /\ database_manager.lock = "free"
    /\ threads' = [threads EXCEPT ![t].query = TRUE]
    /\ database_manager' = [database_manager EXCEPT !.lock = t]
    /\ UNCHANGED <<scannerVars, counterVars, handler>>

\* a method of DatabaseManager: the query is done, the with block is left
DbRelease(t) ==
    /\ threads[t].query
    /\ \E p \in AfterQuery(t, threads[t].pc) :
          threads' = [threads EXCEPT ![t].query = FALSE, ![t].pc = p]
    /\ database_manager' = [database_manager EXCEPT !.lock = "free"]
    /\ UNCHANGED <<scannerVars, counterVars, handler>>

\* except Exception: a chain call raised; the connection is rebuilt, with
\* create_interface first where a substrate interface is passed
Fault(t) ==
    /\ threads[t].pc \in FaultSites(t)
    /\ ~threads[t].query
    /\ \E substrate \in (IF t = Validators THEN BOOLEAN ELSE {TRUE}) :
          threads' = [threads EXCEPT ![t].pc = "rebuild",
                                     ![t].rebuild = start_rebuild(substrate)]
    /\ UNCHANGED <<scannerVars, counterVars, database_manager, handler>>

\* create_interface / create_provider: the url does not answer
RebuildRetry(t) ==
    /\ threads[t].pc = "rebuild"
    /\ threads' = [threads EXCEPT ![t].rebuild = next_url(threads[t].rebuild)]
    /\ UNCHANGED <<scannerVars, counterVars, database_manager, handler>>

\* create_interface returns
RebuildInterface(t) ==
    /\ threads[t].pc = "rebuild"
    /\ threads[t].rebuild[1] = "interface"
    /\ threads' = [threads EXCEPT ![t].rebuild = interface_connected(threads[t].rebuild)]
    /\ UNCHANGED <<scannerVars, counterVars, database_manager, handler>>

\* create_provider returns: the except clause is done
RebuildOk(t) ==
    /\ threads[t].pc = "rebuild"
    /\ threads[t].rebuild[1] = "provider"
    /\ threads' = [threads EXCEPT ![t].pc = AfterRebuild(t), ![t].rebuild = NoRebuild]
    /\ UNCHANGED <<scannerVars, counterVars, database_manager, handler>>

\* SIGTERM or SIGINT is delivered: stop_signal_handler starts in main()
Signal ==
    /\ handler.pc = "idle"
    /\ handler' = [pc |-> "set", i |-> 1]
    /\ UNCHANGED <<scannerVars, counterVars, threads, database_manager>>

\* stop_signal_handler: with thread.lock: thread.stop = True
HandlerSet ==
    /\ handler.pc = "set"
    /\ threads[ThreadList[handler.i]].lock = "free"
    /\ threads' = [threads EXCEPT ![ThreadList[handler.i]].stop = TRUE]
    /\ handler' = [handler EXCEPT !.pc = "join"]
    /\ UNCHANGED <<scannerVars, counterVars, database_manager>>

\* a handler that closes the connections without joining the threads
HandlerJoin_skipped ==
    /\ handler.pc = "join"
    /\ handler' = IF handler.i = Len(ThreadList)
                  THEN [handler EXCEPT !.pc = "close"]
                  ELSE [pc |-> "set", i |-> handler.i + 1]
    /\ UNCHANGED <<scannerVars, counterVars, threads, database_manager>>

\* stop_signal_handler: if thread.is_alive(): thread.join()
HandlerJoin ==
    /\ handler.pc = "join"
    /\ ~is_alive(ThreadList[handler.i])
    /\ handler' = IF handler.i = Len(ThreadList)
                  THEN [handler EXCEPT !.pc = "close"]
                  ELSE [pc |-> "set", i |-> handler.i + 1]
    /\ UNCHANGED <<scannerVars, counterVars, threads, database_manager>>

\* stop_signal_handler: database_manager.conn.close()
HandlerClose ==
    /\ handler.pc = "close"
    /\ database_manager' = [database_manager EXCEPT !.conn = "closed"]
    /\ handler' = [handler EXCEPT !.pc = "exit"]
    /\ UNCHANGED <<scannerVars, counterVars, threads>>

\* stop_signal_handler: sys.exit(sig)
HandlerExit ==
    /\ handler.pc = "exit"
    /\ handler' = [handler EXCEPT !.pc = "done"]
    /\ UNCHANGED <<scannerVars, counterVars, threads, database_manager>>

InitMain ==
    /\ Init
    /\ chain = [b \in 1..MaxBlock |-> <<>>]

ThreadNext(t) ==
    \/ ThreadStart(t)
    \/ Lock(t)
    \/ ExitOnStop(t)
    \/ PassCheck(t)
    \/ Step(t)
    \/ DbAcquire(t)
    \/ DbRelease(t)
    \/ Fault(t)
    \/ RebuildRetry(t)
    \/ RebuildInterface(t)
    \/ RebuildOk(t)

HandlerNext ==
    \/ HandlerSet
    \/ HandlerJoin
    \/ HandlerClose
    \/ HandlerExit

NextMain ==
    \/ \E t \in Threads : ThreadNext(t)
    \/ Signal
    \/ HandlerNext

SpecMain == InitMain /\ [][NextMain]_vars

\* every started thread and the handler are scheduled again and again; the
\* signal, the arrival of blocks and the answers of the endpoints are not
\* under the program's control
FairSpecMain ==
    /\ SpecMain
    /\ \A t \in Threads : WF_vars(ThreadNext(t))
    /\ WF_vars(HandlerNext)

\* ------------------------------------ main(): waiting for the first metrics
need_to_be_initialized == 2

\* hasattr(thread, 'initialized'): the scanner and the scalar poller have the
\* attribute, ValidatorsInfoExporter does not
has_initialized(t) == t \in {Scanner, Scalar}

\* thread.initialized
thread_initialized(t) == IF t = Scanner THEN self.initialized ELSE scalar.initialized

\* the variables main() and the scalar poller leave alone
StartUnchanged ==
    UNCHANGED <<chain, max_range_of_blocks, filters, head, pc, call, stop,
                from_block, current_range_of_blocks, to_block, events, order,
                idx, self, dbVars, connection, alert_not_connected, outcome,
                caught, entry, nimbus_event_filter, rebuild, mainVars,
                counterVars, fnVars, crashes>>

\* for thread in threads: thread.start(), then the two counters are set
MainStart ==
    /\ main.pc = "start"
    /\ main' = [main EXCEPT !.pc = "while", !.initialized = 0]
    /\ scalar' = [scalar EXCEPT !.pc = "para"]
    /\ UNCHANGED faults
    /\ StartUnchanged

\* while need_to_be_initialized > initialized: time.sleep(SECOND)
MainSleep ==
    /\ main.pc = "while"
    /\ need_to_be_initialized > main.initialized
    /\ main' = [main EXCEPT !.pc = "for", !.thread = 1]
    /\ UNCHANGED <<scalar, faults>>
    /\ StartUnchanged

\* one pass of for thread in threads: initialized += 1 for a thread that has
\* the attribute and has set it; initialized keeps its value from pass to pass
MainCount ==
    /\ main.pc = "for"
    /\ LET thread == ThreadList[main.thread]
           counted == IF has_initialized(thread) /\ thread_initialized(thread)
                      THEN main.initialized + 1
                      ELSE main.initialized
       IN main' = IF main.thread < Len(ThreadList)
                  THEN [main EXCEPT !.thread = main.thread + 1, !.initialized = counted]
                  ELSE [main EXCEPT !.pc = "while", !.thread = 1, !.initialized = counted]
    /\ UNCHANGED <<scalar, faults>>
    /\ StartUnchanged

\* the loop is left: prometheus_client.start_http_server(port)
MainServe ==
    /\ main.pc = "while"
    /\ ~(need_to_be_initialized > main.initialized)
    /\ main' = [main EXCEPT !.pc = "join", !.http_server = TRUE]
    /\ UNCHANGED <<scalar, faults>>
    /\ StartUnchanged

\* AggregatedMetricsExporter.run() of the started thread, up to the while loop
ScannerRun ==
    /\ main.pc # "start"
    /\ RunStart

\* ScalarMetricsExporter._run: the parachain head is read and handled
ScalarPara ==
    /\ scalar.pc = "para"
    /\ scalar' = [scalar EXCEPT !.pc = "relay"]
    /\ UNCHANGED <<main, faults>>
    /\ StartUnchanged

\* _run: the relay chain head is read and handled, remove_thread,
\* self.initialized = True
ScalarRelay ==
    /\ scalar.pc = "relay"
    /\ scalar' = [pc |-> "sleep", initialized |-> TRUE]
    /\ UNCHANGED <<main, faults>>
    /\ StartUnchanged

\* _run: time.sleep(SECOND), and the next call of _run
ScalarSleep ==
    /\ scalar.pc = "sleep"
    /\ scalar' = [scalar EXCEPT !.pc = "para"]
    /\ UNCHANGED <<main, faults>>
    /\ StartUnchanged

\* _run: a call inside the try block raises, the except clause rebuilds the
\* connections
ScalarRaise ==
    /\ scalar.pc \in {"para", "relay"}
    /\ faults < MaxFaults
    /\ faults' = faults + 1
    /\ scalar' = [scalar EXCEPT !.pc = "rebuild"]
    /\ UNCHANGED main
    /\ StartUnchanged

\* the except clause has rebuilt the connections: the next call of _run
ScalarRebuilt ==
    /\ scalar.pc = "rebuild"
    /\ scalar' = [scalar EXCEPT !.pc = "para"]
    /\ UNCHANGED <<main, faults>>
    /\ StartUnchanged

NextStart ==
    \/ MainStart
    \/ MainSleep
    \/ MainCount
    \/ MainServe
    \/ ScannerRun
    \/ ScalarPara
    \/ ScalarRelay
    \/ ScalarSleep
    \/ ScalarRaise
    \/ ScalarRebuilt

SpecStart == InitMain /\ [][NextStart]_vars

\* ------------------------------------------------- ReconnectionCounter
TIME_THRESHOLD_SECS == 180

\* (a - b).total_seconds() of two datetimes, in seconds
total_seconds(a, b) == a - b

\* the position of wrapper that follows position p
wrapper_after(p) ==
    IF p = "call" THEN "record" ELSE IF p = "record" THEN "again" ELSE "call"

\* datetime.now() moves on
Tick ==
    /\ now + TickSecs <= MaxNow
    /\ now' = now + TickSecs
    /\ UNCHANGED <<scannerVars, mainVars, prev_exception_occurred,
                   alert_thread_is_failed, wrapper>>

\* a remove_thread that also clears the label's alert gauge
CallRemoves_clears(t) ==
    /\ wrapper[t] \in {"call", "again"}
    /\ prev_exception_occurred' = [prev_exception_occurred EXCEPT ![t] = -1]
    /\ alert_thread_is_failed' = [alert_thread_is_failed EXCEPT ![t] = FALSE]
    /\ wrapper' = [wrapper EXCEPT ![t] = wrapper_after(wrapper[t])]
    /\ UNCHANGED <<scannerVars, mainVars, now>>

\* wrapper: func(*args, **kwargs) runs a cycle that ends with
\* remove_thread(thread_name): the label is popped from the dict
CallRemoves(t) ==
    /\ wrapper[t] \in {"call", "again"}
    /\ prev_exception_occurred' = [prev_exception_occurred EXCEPT ![t] = -1]
    /\ wrapper' = [wrapper EXCEPT ![t] = wrapper_after(wrapper[t])]
    /\ UNCHANGED <<scannerVars, mainVars, now, alert_thread_is_failed>>

\* wrapper: func(*args, **kwargs) runs a cycle whose except clause rebuilds
\* the connection: remove_thread is not called
CallFails(t) ==
    /\ wrapper[t] \in {"call", "again"}
    /\ wrapper' = [wrapper EXCEPT ![t] = wrapper_after(wrapper[t])]
    /\ UNCHANGED <<scannerVars, mainVars, now, prev_exception_occurred,
                   alert_thread_is_failed>>

\* wrapper: the if / else between its two calls of func
Record(t) ==
    /\ wrapper[t] = "record"
    /\ wrapper' = [wrapper EXCEPT ![t] = wrapper_after(wrapper[t])]
    /\ IF prev_exception_occurred[t] = -1
       THEN /\ prev_exception_occurred' = [prev_exception_occurred EXCEPT ![t] = now]
            /\ UNCHANGED alert_thread_is_failed
       ELSE IF total_seconds(prev_exception_occurred[t], now) < TIME_THRESHOLD_SECS
       THEN /\ alert_thread_is_failed' = [alert_thread_is_failed EXCEPT ![t] = TRUE]
            /\ UNCHANGED prev_exception_occurred
       ELSE /\ prev_exception_occurred' = [prev_exception_occurred EXCEPT ![t] = now]
            /\ UNCHANGED alert_thread_is_failed
    /\ UNCHANGED <<scannerVars, mainVars, now>>

NextCounter ==
    \/ Tick
    \/ \E t \in Threads : CallRemoves(t)
    \/ \E t \in Threads : CallFails(t)
    \/ \E t \in Threads : Record(t)

SpecCounter == InitMain /\ [][NextCounter]_vars

\* ------------------------------------------------------- calculate_apr
\* Rates are fractions <<numerator, denominator>> in lowest terms with a
\* positive denominator.
DAYS_IN_YEAR == 365

Abs(n) == IF n < 0 THEN 0 - n ELSE n

RECURSIVE Gcd(_, _)
Gcd(a, b) == IF b = 0 THEN a ELSE Gcd(b, a % b)

Frac(n, d) ==
    LET g == Gcd(Abs(n), Abs(d))
        sgn == IF d < 0 THEN 0 - 1 ELSE 1
    IN <<sgn * (n \div g), sgn * (d \div g)>>

FracAdd(x, y) == Frac(x[1] * y[2] + y[1] * x[2], x[2] * y[2])
FracDiv(x, n) == Frac(x[1], x[2] * n)
FracLess(x, y) == x[1] * y[2] < y[1] * x[2]

RECURSIVE FracSum(_)
FracSum(xs) == IF xs = <<>> THEN <<0, 1>> ELSE FracAdd(Head(xs), FracSum(Tail(xs)))

\* _apr of one row (ledger, reward, balance, block)
row_apr(row, eras_per_day) ==
    LET denominator == row.balance - row.reward
    IN IF denominator # 0
       THEN Frac(row.reward * eras_per_day * DAYS_IN_YEAR, denominator)
       ELSE <<0, 1>>

\* apr[ledger]: the rates of the ledger's rows that are not skipped
ledger_apr(rows, eras_per_day, apr_min, apr_max) ==
    SelectSeq([i \in 1..Len(rows) |-> row_apr(rows[i], eras_per_day)],
              LAMBDA x : ~(FracLess(x, apr_min) \/ FracLess(apr_max, x)))

\* the dict's keys in a fixed order
RECURSIVE KeySeq(_)
KeySeq(S) ==
    IF S = {} THEN <<>>
    ELSE LET k == CHOOSE x \in S : TRUE IN <<k>> \o KeySeq(S \ {k})

\* a calculate_apr that resets the rate when no row is retained
calculate_apr_reset(total_apr, rewards, eras_per_day, apr_min, apr_max) ==
    LET keys == KeySeq(DOMAIN rewards)
        apr == [i \in 1..Len(keys) |-> ledger_apr(rewards[keys[i]], eras_per_day, apr_min, apr_max)]
        averaged_apr == [i \in 1..Len(SelectSeq(apr, LAMBDA v : v # <<>>)) |->
                            LET v == SelectSeq(apr, LAMBDA w : w # <<>>)[i]
                            IN FracDiv(FracSum(v), Len(v))]
    IN IF averaged_apr # <<>>
       THEN FracDiv(FracSum(averaged_apr), Len(averaged_apr))
       ELSE <<0, 1>>

calculate_apr(total_apr, rewards, eras_per_day, apr_min, apr_max) ==
    LET keys == KeySeq(DOMAIN rewards)
        apr == [i \in 1..Len(keys) |-> ledger_apr(rewards[keys[i]], eras_per_day, apr_min, apr_max)]
        averaged_apr == [i \in 1..Len(SelectSeq(apr, LAMBDA v : v # <<>>)) |->
                            LET v == SelectSeq(apr, LAMBDA w : w # <<>>)[i]
                            IN FracDiv(FracSum(v), Len(v))]
    IN IF averaged_apr # <<>>
       THEN FracDiv(FracSum(averaged_apr), Len(averaged_apr))
       ELSE total_apr

\* the rows of the reward table handed to calculate_apr: (reward, balance)
\* with rates 146, -73, 73/100, 1/2 and a zero denominator when there are 4
\* eras a day
AprRows ==
    {[ledger |-> "L", reward |-> r[1], balance |-> r[2], block |-> 1] :
        r \in {<<10, 110>>, <<0 - 5, 95>>, <<1, 2001>>, <<1, 2921>>, <<5, 5>>}}

AprRowLists == UNION {[1..n -> AprRows] : n \in 0..MaxRewards}

AprLedgers == {"L1", "L2"}

AprArgs ==
    {[total_apr |-> t, rewards |-> r, eras_per_day |-> 4, apr_min |-> lo, apr_max |-> hi] :
        t \in {<<0, 1>>, <<1, 4>>},
        r \in UNION {[S -> AprRowLists] : S \in SUBSET AprLedgers},
        lo \in {<<0, 1>>, <<0 - 100, 1>>},
        hi \in {<<1, 1>>}}

InitApr ==
    /\ InitBase
    /\ chain = [b \in 1..MaxBlock |-> <<>>]
    /\ args \in AprArgs
    /\ result = NoResult

\* self.apr = utils.calculate_apr(self.apr, rewards, eras_per_day, apr_min, apr_max)
CalculateApr ==
    /\ result = NoResult
    /\ result' = <<calculate_apr(args.total_apr, args.rewards, args.eras_per_day,
                                 args.apr_min, args.apr_max)>>
    /\ UNCHANGED <<chain, filters, main, scalar, head, max_range_of_blocks, pc, call, stop, from_block,
                   current_range_of_blocks, to_block, events, order, idx, self,
                   dbVars, connection, alert_not_connected, outcome, caught,
                   entry, nimbus_event_filter, rebuild, faults, crashes,
                   mainVars, counterVars, args>>

NextApr == CalculateApr

SpecApr == InitApr /\ [][NextApr]_vars

\* ----------------------------------------------------- DatabaseManager
\* The methods of DatabaseManager, each called on its own on the three tables.
\* `raises` says whether the query fails (connection lost, server error); a
\* method catches every exception of its query and logs it.
DELETE == [op |-> "DELETE"]
INSERT(row) == [op |-> "INSERT", row |-> row]

\* curs.execute of each statement in turn
RECURSIVE execute(_, _)
execute(table, statements) ==
    IF statements = <<>> THEN table
    ELSE execute(IF Head(statements).op = "DELETE" THEN <<>>
                 ELSE Append(table, Head(statements).row),
                 Tail(statements))

\* a connection in autocommit mode: the statements before the failing one stay
transaction_autocommit(table, statements, raises_at) ==
    IF raises_at \in 1..Len(statements)
    THEN execute(table, SubSeq(statements, 1, raises_at - 1))
    ELSE execute(table, statements)

\* with self.conn: commit when the block is left normally, rollback when
\* statement number raises_at raises (0: none does)
transaction(table, statements, raises_at) ==
    IF raises_at \in 1..Len(statements)
    THEN table
    ELSE execute(table, statements)

update_aggregated_data(table, row, raises_at) ==
    transaction(table, <<DELETE, INSERT(row)>>, raises_at)

\* result = (); ...; result = curs.fetchone()
get_aggregated_data(table, raises) ==
    IF raises \/ table = <<>> THEN <<>> ELSE table[1]

\* INSERT INTO holder, a table with PRIMARY KEY (holder): the exception of the
\* statement, and the table after the with block
insert_holder(table, h, raises) ==
    IF raises THEN <<"OperationalError", table>>
    ELSE IF h \in table THEN <<"UniqueViolation", table>>
    ELSE <<"none", table \cup {h}>>

\* an add_holder that catches no exception
add_holder_uncaught(table, h, raises) ==
    <<insert_holder(table, h, raises)[1], insert_holder(table, h, raises)[2], "none">>

\* add_holder: except EXPECTED_POSTGRES_EXCEPTIONS / except Exception: what
\* reaches the caller, the table, and the exception that was logged
add_holder(table, h, raises) ==
    <<"none", insert_holder(table, h, raises)[2], insert_holder(table, h, raises)[1]>>

\* result = (); ...; result = curs.fetchone()
get_holders_number(table, raises) ==
    IF raises THEN <<>> ELSE <<Cardinality(table)>>

\* INSERT INTO reward, a table without key
add_reward(table, row, raises) ==
    transaction(table, <<INSERT(row)>>, IF raises THEN 1 ELSE 0)

DbCheckpointRows ==
    {CheckpointRow([InitSelf EXCEPT !.deposited = d, !.deposited_events_num = n], b) :
        d \in {0, Amount("Deposited")}, n \in 0..1, b \in 1..2}

DbHolders == {Receiver(b) : b \in 1..MaxBlock}

DbRewardRows ==
    {[ledger |-> Ledger, reward |-> r, balance |-> Balance, block |-> b] :
        r \in {Amount("Rewards"), 0 - Amount("Losses")}, b \in 1..2}

InitDb ==
    /\ InitBase
    /\ chain = [b \in 1..MaxBlock |-> <<>>]
    /\ InitFn

DbUnchanged ==
    UNCHANGED <<chain, filters, main, scalar, head, max_range_of_blocks, pc, call, stop, from_block,
                current_range_of_blocks, to_block, events, order, idx, self,
                connection, alert_not_connected, outcome, caught, entry,
                nimbus_event_filter, rebuild, faults, crashes, mainVars,
                counterVars>>

UpdateAggregatedData ==
    /\ \E row \in DbCheckpointRows, raises_at \in 0..2 :
          /\ args' = <<"update_aggregated_data", row, raises_at>>
          /\ aggregated_data' = update_aggregated_data(aggregated_data, row, raises_at)
    /\ result' = <<"none">>
    /\ UNCHANGED <<reward, holder>>
    /\ DbUnchanged

GetAggregatedData ==
    /\ \E raises \in BOOLEAN :
          /\ args' = <<"get_aggregated_data", raises>>
          /\ result' = <<"none", get_aggregated_data(aggregated_data, raises)>>
    /\ UNCHANGED dbVars
    /\ DbUnchanged

AddHolder ==
    /\ \E h \in DbHolders, raises \in BOOLEAN :
          /\ args' = <<"add_holder", h, raises>>
          /\ result' = <<add_holder(holder, h, raises)[1], add_holder(holder, h, raises)[3]>>
          /\ holder' = add_holder(holder, h, raises)[2]
    /\ UNCHANGED <<aggregated_data, reward>>
    /\ DbUnchanged

GetHoldersNumber ==
    /\ \E raises \in BOOLEAN :
          /\ args' = <<"get_holders_number", raises>>
          /\ result' = <<"none", get_holders_number(holder, raises)>>
    /\ UNCHANGED dbVars
    /\ DbUnchanged

AddReward ==
    /\ Len(reward) < MaxRows
    /\ \E row \in DbRewardRows, raises \in BOOLEAN :
          /\ args' = <<"add_reward", row, raises>>
          /\ reward' = add_reward(reward, row, raises)
    /\ result' = <<"none">>
    /\ UNCHANGED <<aggregated_data, holder>>
    /\ DbUnchanged

\* run(), up to the while loop, on a fresh instance: restore_from_database
\* inside try/except. get_holders_number()[0] raises IndexError when the query
\* failed and run() takes the configured first block; a failed
\* get_aggregated_data returns () and is read as "no checkpoint". The pair is
\* <<from_block, the instance fields>>.
run_recovery(data_table, reward_table, holder_table, raises_holders, raises_data) ==
    IF get_holders_number(holder_table, raises_holders) = <<>>
    THEN <<initial_block_num_aggregated_metrics, [InitSelf EXCEPT !.initialized = TRUE]>>
    ELSE LET data == IF get_aggregated_data(data_table, raises_data) = <<>> THEN <<>>
                     ELSE <<get_aggregated_data(data_table, raises_data)>>
         IN <<restore_from_block(data),
              [restore_from_database(InitSelf, data, reward_table, holder_table)
                  EXCEPT !.initialized = TRUE]>>

Recover ==
    /\ \E raises_holders \in BOOLEAN, raises_data \in BOOLEAN :
          /\ args' = <<"run", raises_holders, raises_data>>
          /\ result' = <<"none", run_recovery(aggregated_data, reward, holder,
                                               raises_holders, raises_data)>>
    /\ UNCHANGED dbVars
    /\ DbUnchanged

NextDb ==
    \/ UpdateAggregatedData
    \/ GetAggregatedData
    \/ AddHolder
    \/ GetHoldersNumber
    \/ AddReward
    \/ Recover

SpecDb == InitDb /\ [][NextDb]_vars

\* ------------------------------------------- distribute_events, in detail
\* The classifier called on its own, on blocks that hold several logs. A block
\* is a sequence of <<kind, transaction>>; the log index of a log is its
\* position in the block, its transaction hash is <<block, transaction>>.
LogKinds == {"Deposited", "Rewards", "Transfer", "Other"}

BlockLayouts ==
    UNION {{l \in [1..n -> LogKinds \X (1..2)] :
               \A i \in 1..n, j \in 1..n : i < j => l[i][2] <= l[j][2]} : n \in 0..MaxLogs}

\* the raw logs of block b, in log-index order
raw_logs(layout, b) ==
    [i \in 1..Len(layout) |->
        [event |-> layout[i][1], blockNumber |-> b, logIndex |-> i,
         transactionHash |-> <<b, layout[i][2]>>]]

\* filter.get_all_entries(): the blocks in either order, the logs of a block
\* in log-index order
provider_entries(blocks, po) ==
    IF po = "asc"
    THEN raw_logs(blocks[1], 1) \o raw_logs(blocks[2], 2)
    ELSE raw_logs(blocks[2], 2) \o raw_logs(blocks[1], 1)

\* w3.eth.get_transaction_receipt: the logs of the transaction
get_transaction_receipt(blocks, transaction_hash) ==
    SelectSeq(raw_logs(blocks[transaction_hash[1]], transaction_hash[1]),
              LAMBDA l : l.transactionHash = transaction_hash)

\* the args a log of the contract decodes to
DecodedAmount(l) == 10 * l.blockNumber + l.logIndex

\* method.processReceipt(tx_receipt, errors=DISCARD): the receipt's logs of
\* the method's event, decoded
process_receipt(key, tx_receipt) ==
    LET matching == SelectSeq(tx_receipt, LAMBDA l : l.event = key)
    IN [i \in 1..Len(matching) |->
          [event |-> key, blockNumber |-> matching[i].blockNumber,
           logIndex |-> matching[i].logIndex, amount |-> DecodedAmount(matching[i])]]

\* find_log: the position of the log with this index, the first position when
\* there is none
find_log(logs, log_index) ==
    IF \E i \in 1..Len(logs) : logs[i].logIndex = log_index
    THEN CHOOSE i \in 1..Len(logs) :
            /\ logs[i].logIndex = log_index
            /\ \A j \in 1..(i - 1) : logs[j].logIndex # log_index
    ELSE 1

\* what the loop body of distribute_events appends for one raw log
rich_event(event, blocks) ==
    IF event.event = "Transfer" THEN event
    ELSE LET rich_logs == process_receipt(event.event,
                             get_transaction_receipt(blocks, event.transactionHash))
         IN rich_logs[find_log(rich_logs, event.logIndex)]

\* a distribute_events whose lists are not emptied between two calls
distribute_events_kept(events_mixed, blocks, kept) ==
    IF events_mixed = <<>> THEN <<>>
    ELSE [i \in 1..Len(EventKeys) |->
            (IF kept = <<>> THEN <<>> ELSE kept[i]) \o
            LET mine == SelectSeq(events_mixed, LAMBDA e : e.event = EventKeys[i])
            IN [j \in 1..Len(mine) |-> rich_event(mine[j], blocks)]]

\* distribute_events with the receipts: events = {five empty lists}, then one
\* append per raw log whose topic is one of the five; `kept` is what an
\* earlier call returned
distribute_events_receipts(events_mixed, blocks, kept) ==
    IF events_mixed = <<>> THEN <<>>
    ELSE [i \in 1..Len(EventKeys) |->
            LET mine == SelectSeq(events_mixed, LAMBDA e : e.event = EventKeys[i])
            IN [j \in 1..Len(mine) |-> rich_event(mine[j], blocks)]]

\* distribute_events_by_blocks: the dict it returns, block -> key -> list
by_blocks(classified) ==
    LET keys == distribute_events_by_blocks(classified)
    IN [n \in 1..Len(keys) |->
          [block_number |-> keys[n],
           lists |-> [i \in 1..Len(EventKeys) |-> EventsOf(classified, keys[n], EventKeys[i])]]]

ClassifyArgs ==
    {[blocks |-> <<b1, b2>>, po |-> po] :
        b1 \in BlockLayouts, b2 \in BlockLayouts, po \in ProviderOrders}

InitClassify ==
    /\ InitBase
    /\ chain = [b \in 1..MaxBlock |-> <<>>]
    /\ args \in ClassifyArgs
    /\ result = NoResult

\* get_nimbus_events and distribute_events_by_blocks, called for the same
\* answer of the provider and the same receipts, a first and a second time
Classify ==
    /\ Len(result) < 2
    /\ LET sorted_events == sorted(provider_entries(args.blocks, args.po))
           classified == distribute_events_receipts(sorted_events, args.blocks,
                            IF result = <<>> THEN <<>> ELSE result[Len(result)].events)
       IN result' = Append(result, [events |-> classified, by_blocks |-> by_blocks(classified)])
    /\ UNCHANGED <<chain, filters, main, scalar, head, max_range_of_blocks, pc, call, stop, from_block,
                   current_range_of_blocks, to_block, events, order, idx, self,
                   dbVars, connection, alert_not_connected, outcome, caught,
                   entry, nimbus_event_filter, rebuild, faults, crashes,
                   mainVars, counterVars, args>>

NextClassify == Classify

SpecClassify == InitClassify /\ [][NextClassify]_vars

\* ------------------------------------------------ the runs of the cursor
\* The scanner alone against a provider that answers every log query over at
\* most `limit` blocks and may refuse a larger one with "query returned more
\* than 10000 results"; no other call raises, the process is not restarted and
\* not stopped. args is <<"limit", limit>>.
ProviderLimits == 2..MaxLimit

\* the chains with at most one block of events, a Deposited or a Rewards event
ProgressChains ==
    {c \in Chains :
        /\ Cardinality({b \in 1..MaxBlock : c[b] # <<>>}) <= 1
        /\ \A b \in 1..MaxBlock : c[b] \in {<<>>, <<"Deposited">>, <<"Rewards">>}}

InitProgress ==
    /\ chain \in ProgressChains
    /\ head = initial_block_num_aggregated_metrics
    /\ max_range_of_blocks \in 1..(MaxRange + 1)
    /\ filters = NoFilters
    /\ main = NoMain
    /\ scalar = NoScalar
    /\ pc = "init"
    /\ call = 1
    /\ stop = FALSE
    /\ from_block = initial_block_num_aggregated_metrics
    /\ current_range_of_blocks = max_range_of_blocks
    /\ to_block = 0
    /\ events = <<>>
    /\ order = <<>>
    /\ idx = 0
    /\ self = InitSelf
    /\ aggregated_data = <<>>
    /\ reward = <<>>
    /\ holder = {}
    /\ connection = 0
    /\ alert_not_connected = FALSE
    /\ outcome = "none"
    /\ caught = NoException
    /\ entry = NoEntry
    /\ nimbus_event_filter = NoFilter
    /\ rebuild = NoRebuild
    /\ InitThreads
    /\ InitCounter
    /\ args \in {<<"limit", k>> : k \in ProviderLimits}
    /\ result = NoResult
    /\ faults = MaxFaults
    /\ crashes = MaxCrashes

\* the number of blocks of the range [from_block, to_block] of the cycle
BlocksRequested == ToBlock - from_block + 1

\* the log query is refused as too large
ProgressRangeTooLarge ==
    /\ BlocksRequested > args[2]
    /\ UNCHANGED faults
    /\ FetchRaises("TooManyResults")

\* one step of the scanner's thread
ScannerStep ==
    \/ RunStart
    \/ RunSleep
    \/ ProgressRangeTooLarge
    \/ RunNoEvents
    \/ RunFetch
    \/ FoldCheckpoint
    \/ FoldLedger

NextProgress ==
    \/ NewBlock
    \/ RunStart
    \/ RunSleep
    \/ ProgressRangeTooLarge
    \/ RunNoEvents
    \/ RunFetch
    \/ FoldCheckpoint
    \/ FoldLedger

\* the thread keeps running and the chain keeps finalizing blocks
FairSpecProgress ==
    InitProgress /\ [][NextProgress]_vars /\ WF_vars(ScannerStep) /\ WF_vars(NewBlock)

\* --------------------------------------- ContractEventFilter, in detail
\* The filter object called on its own: nimbus_event_filter holds its fields,
\* filters the provider side of its connection. Every method returns
\* <<exception, ..., the object, the provider side>>.

\* set('nimbus',), the events_to_find that get_nimbus_events passes: set() of
\* a string is the set of its characters
events_to_find == {"n", "i", "m", "b", "u", "s"}

\* __init__: self.topics, the five hashes when 'nimbus' in events_to_find
topics_of(to_find) == IF "nimbus" \in to_find THEN EventNames ELSE {}

\* _init_filter: w3.eth.filter({address, fromBlock, toBlock, topics}) returns
\* a new handle
init_filter(f, p) ==
    << [f EXCEPT !.filter = [filter_id |-> p.next_id, fromBlock |-> f.from_block,
                             toBlock |-> f.to_block, topics |-> f.topics],
                 !.uninstalled = FALSE],
       [p EXCEPT !.next_id = @ + 1, !.installed = @ \cup {p.next_id}] >>

\* what w3.eth.uninstall_filter does: it succeeds, it raises ValueError (the
\* provider answers with an error), or the call times out
UninstallOutcomes == {"ok", "ValueError", "AsyncioTimeoutError"}

\* uninstall: only ValueError is caught
uninstall(f, p, uninstalls) ==
    << IF uninstalls \in {"ok", "ValueError"} THEN "none" ELSE uninstalls,
       [f EXCEPT !.uninstalled = TRUE],
       [p EXCEPT !.attempted = @ \cup {f.filter.filter_id},
                 !.installed = IF uninstalls = "ok" THEN @ \ {f.filter.filter_id} ELSE @] >>

\* __init__
ContractEventFilter(p, w3, lo, hi, to_find) ==
    IF lo > hi THEN <<"AssertionError", NoFilter, p>>
    ELSE LET f == [topics |-> topics_of(to_find), from_block |-> lo, to_block |-> hi,
                   uninstalled |-> FALSE, w3 |-> w3, filter |-> <<>>]
         IN <<"none", init_filter(f, p)[1], init_filter(f, p)[2]>>

\* update_filter_range
update_filter_range(f, p, lo, hi, uninstalls) ==
    LET u == IF ~f.uninstalled THEN uninstall(f, p, uninstalls) ELSE <<"none", f, p>>
    IN IF u[1] # "none" THEN u
       ELSE LET f1 == [u[2] EXCEPT !.from_block = lo, !.to_block = hi]
            IN <<"none", init_filter(f1, u[3])[1], init_filter(f1, u[3])[2]>>

\* the chains of the runs of the filter: a block holds no log, one log or two
FilterBlockContents == {<<>>, <<"Rewards">>, <<"Transfer", "Deposited">>}

\* the block numbers a range of the filter is made of
FilterBlocks == 1..(MaxRange + 1)

FilterChains ==
    {c \in [1..MaxBlock -> FilterBlockContents] :
        /\ Cardinality({b \in 1..MaxBlock : c[b] # <<>>}) <= MaxEventBlocks
        /\ \A b \in 1..MaxBlock : b \notin FilterBlocks => c[b] = <<>>}

\* filter.get_all_entries() of a handle the provider knows: the logs of the
\* blocks of its range whose topic is in its topic list; an empty list matches
\* every topic
filter_logs(h, po) ==
    SelectSeq(get_logs(h.fromBlock, IF h.toBlock < MaxBlock THEN h.toBlock ELSE MaxBlock, po),
              LAMBDA e : h.topics = {} \/ e.event \in h.topics)

\* the outcomes of the calls of filter.get_all_entries() in the for loop:
\* "stale" is a ValueError other than "query returned more than 10000 results"
QueryAttempts ==
    {<<a>> : a \in {"ok", "TooManyResults", "AsyncioTimeoutError"}}
      \cup {<<"stale", a>> : a \in {"ok", "stale", "TooManyResults", "AsyncioTimeoutError"}}

\* a get_all_entries that leaves the range of the filter as it is
filter_get_all_entries_same_range(f, p, po, attempts, uninstalls) ==
    LET s0 == IF f.uninstalled THEN init_filter(f, p) ELSE <<f, p>>
        s1 == IF attempts[1] = "stale" THEN init_filter(s0[1], s0[2]) ELSE s0
        last == attempts[Len(attempts)]
        s2 == IF Len(attempts) = 2 /\ last = "stale" THEN init_filter(s1[1], s1[2]) ELSE s1
        queried == <<s0[1].filter.filter_id>>
                     \o (IF Len(attempts) = 2 THEN <<s1[1].filter.filter_id>> ELSE <<>>)
    IN IF last \in {"TooManyResults", "AsyncioTimeoutError"}
       THEN LET u == uninstall(s1[1], s1[2], uninstalls)
            IN <<IF u[1] # "none" THEN u[1] ELSE last, <<>>, u[2], u[3], queried>>
       ELSE LET entries == IF last = "ok" THEN filter_logs(s1[1].filter, po) ELSE <<>>
                u == uninstall(s2[1], s2[2], uninstalls)
            IN IF u[1] # "none" THEN <<u[1], <<>>, u[2], u[3], queried>>
               ELSE <<"none", sorted(entries), u[2], u[3], queried>>

\* get_all_entries: <<exception, the list returned, the object, the provider
\* side, the handles that were queried>>
filter_get_all_entries(f, p, po, attempts, uninstalls) ==
    LET s0 == IF f.uninstalled THEN init_filter(f, p) ELSE <<f, p>>
        s1 == IF attempts[1] = "stale" THEN init_filter(s0[1], s0[2]) ELSE s0
        last == attempts[Len(attempts)]
        s2 == IF Len(attempts) = 2 /\ last = "stale" THEN init_filter(s1[1], s1[2]) ELSE s1
        queried == <<s0[1].filter.filter_id>>
                     \o (IF Len(attempts) = 2 THEN <<s1[1].filter.filter_id>> ELSE <<>>)
    IN IF last \in {"TooManyResults", "AsyncioTimeoutError"}
       THEN LET u == uninstall(s1[1], s1[2], uninstalls)
            IN <<IF u[1] # "none" THEN u[1] ELSE last, <<>>, u[2], u[3], queried>>
       ELSE LET entries == IF last = "ok" THEN filter_logs(s1[1].filter, po) ELSE <<>>
                u == uninstall(s2[1], s2[2], uninstalls)
            IN IF u[1] # "none" THEN <<u[1], <<>>, u[2], u[3], queried>>
               ELSE <<"none", sorted(entries),
                      filter_after_entries(u[2], sorted(entries)), u[3], queried>>

InitFilter ==
    /\ chain \in FilterChains
    /\ head = MaxBlock
    /\ max_range_of_blocks = MaxRange
    /\ filters = NoFilters
    /\ main = NoMain
    /\ scalar = NoScalar
    /\ pc = "init"
    /\ call = 1
    /\ stop = FALSE
    /\ from_block = initial_block_num_aggregated_metrics
    /\ current_range_of_blocks = max_range_of_blocks
    /\ to_block = 0
    /\ events = <<>>
    /\ order = <<>>
    /\ idx = 0
    /\ self = InitSelf
    /\ aggregated_data = <<>>
    /\ reward = <<>>
    /\ holder = {}
    /\ connection = 0
    /\ alert_not_connected = FALSE
    /\ outcome = "none"
    /\ caught = NoException
    /\ entry = NoEntry
    /\ nimbus_event_filter = NoFilter
    /\ rebuild = NoRebuild
    /\ InitThreads
    /\ InitCounter
    /\ InitFn
    /\ faults = 0
    /\ crashes = 0

FilterUnchanged ==
    UNCHANGED <<chain, main, scalar, head, max_range_of_blocks, pc, call, stop, from_block,
                current_range_of_blocks, to_block, events, order, idx, self,
                dbVars, connection, alert_not_connected, outcome, caught, entry,
                rebuild, faults, crashes, mainVars, counterVars>>

\* ContractEventFilter(w3, nimbus_address, lo, hi, events_to_find=set('nimbus',))
Construct ==
    /\ nimbus_event_filter = NoFilter
    /\ \E lo \in FilterBlocks, hi \in FilterBlocks :
          LET r == ContractEventFilter(filters, connection, lo, hi, events_to_find)
          IN /\ args' = <<"__init__", lo, hi>>
             /\ result' = <<r[1], <<>>, <<>>>>
             /\ nimbus_event_filter' = r[2]
             /\ filters' = r[3]
    /\ FilterUnchanged

GetAllEntries ==
    /\ nimbus_event_filter # NoFilter
    /\ filters.next_id <= MaxHandles
    /\ \E po \in ProviderOrders, attempts \in QueryAttempts, uninstalls \in UninstallOutcomes :
          LET r == filter_get_all_entries(nimbus_event_filter, filters, po, attempts, uninstalls)
          IN /\ args' = <<"get_all_entries", po, attempts, uninstalls>>
             /\ result' = <<r[1], r[2], r[5]>>
             /\ nimbus_event_filter' = r[3]
             /\ filters' = r[4]
    /\ FilterUnchanged

UpdateFilterRange ==
    /\ nimbus_event_filter # NoFilter
    /\ filters.next_id <= MaxHandles
    /\ \E lo \in FilterBlocks, hi \in FilterBlocks, uninstalls \in UninstallOutcomes :
          LET r == update_filter_range(nimbus_event_filter, filters, lo, hi, uninstalls)
          IN /\ args' = <<"update_filter_range", lo, hi, uninstalls>>
             /\ result' = <<r[1], <<>>, <<>>>>
             /\ nimbus_event_filter' = r[2]
             /\ filters' = r[3]
    /\ FilterUnchanged

NextFilter ==
    \/ Construct
    \/ GetAllEntries
    \/ UpdateFilterRange

SpecFilter == InitFilter /\ [][NextFilter]_vars

\* ------------------------------------------------------ what the chain holds
RECURSIVE EventsIn(_, _, _)
EventsIn(k, lo, hi) ==
    IF lo > hi THEN <<>>
    ELSE SelectSeq(Logs(lo), LAMBDA e : e.event = k) \o EventsIn(k, lo + 1, hi)

\* the blocks of [lo, hi] that hold events
EventBlocks(lo, hi) == {b \in lo..hi : chain[b] # <<>>}

Highest(S) == IF S = {} THEN -1 ELSE CHOOSE b \in S : \A c \in S : c <= b

\* the AggregatedState of a scanner that has folded every event of the blocks
\* initial_block_num_aggregated_metrics .. hi exactly once
FoldedOnce(hi) ==
    [deposited |-> SumAmounts(EventsIn("Deposited", initial_block_num_aggregated_metrics, hi)),
     deposited_events_num |-> Len(EventsIn("Deposited", initial_block_num_aggregated_metrics, hi)),
     redeemed |-> SumAmounts(EventsIn("Redeemed", initial_block_num_aggregated_metrics, hi)),
     redeemed_events_num |-> Len(EventsIn("Redeemed", initial_block_num_aggregated_metrics, hi)),
     last_block_number_with_events |->
        Highest(EventBlocks(initial_block_num_aggregated_metrics, hi))]


\* ------------------------------------------------------------------ claims

\* C1: after an iteration of the run loop (one call of the decorated _run) has
\* processed a range without any fault, every Deposited and Redeemed event of
\* the blocks below from_block has been added to the totals and the counts
\* exactly once, last_block_number_with_events is the highest block with
\* events below from_block, and from_block has moved past the range.
C1_FoldedExactlyOnce ==
    (pc = "top" /\ call = 1 /\ outcome = "processed" /\ faults = 0 /\ crashes = 0)
        => /\ AggregatedState(self) = FoldedOnce(from_block - 1)
           /\ from_block > initial_block_num_aggregated_metrics

\* C2: aggregation is not lossy: every event of a block below from_block has
\* been folded (a Deposited or Redeemed event into the counts, a Rewards or Losses
\* event into the reward table, a Transfer event into the holder table), also
\* when the provider reports the filter handle as stale on every attempt.
\* Stated for the runs without a crash.
C2_NotLossy ==
    crashes = 0 =>
        /\ self.deposited_events_num >=
              Len(EventsIn("Deposited", initial_block_num_aggregated_metrics, from_block - 1))
        /\ self.redeemed_events_num >=
              Len(EventsIn("Redeemed", initial_block_num_aggregated_metrics, from_block - 1))
        /\ \A b \in initial_block_num_aggregated_metrics..(from_block - 1) :
              /\ (\E i \in 1..Len(chain[b]) : chain[b][i] \in {"Rewards", "Losses"})
                    => \E j \in 1..Len(reward) : reward[j].block = b
              /\ (\E i \in 1..Len(chain[b]) : chain[b][i] = "Transfer")
                    => Receiver(b) \in holder

\* C3: when a fault interrupts a cycle after blocks of its range were folded and
\* checkpointed, from_block is not advanced and no partial aggregation of the
\* interrupted cycle is retained: the AggregatedState is the one the cycle was
\* entered with.
C3_NoPartialAggregation ==
    [][(pc = "ledger" /\ pc' \in {"top", "reconnect"} /\ caught' # NoException)
          => /\ from_block' = from_block
             /\ AggregatedState(self') = entry]_vars

\* C4: after a restart from the persisted checkpoint the scan yields the same
\* aggregate as an uninterrupted run: at a cycle boundary every block below
\* from_block has been folded exactly once (runs with a crash and no provider fault).
C4_RestartEquivalence ==
    (pc = "top" /\ call = 1 /\ crashes > 0 /\ faults = 0 /\ outcome = "processed")
        => AggregatedState(self) = FoldedOnce(from_block - 1)

\* the checkpoint row, read as the scanner's fields before the first write
Persisted ==
    IF aggregated_data = <<>> THEN AggregatedState(InitSelf) ELSE aggregated_data[1]

NotBelow(a, b) ==
    /\ a.deposited >= b.deposited
    /\ a.deposited_events_num >= b.deposited_events_num
    /\ a.redeemed >= b.redeemed
    /\ a.redeemed_events_num >= b.redeemed_events_num
    /\ a.last_block_number_with_events >= b.last_block_number_with_events

\* C5: across successful scan cycles (no fault, no crash) the totals, the event
\* counts and last_block_number_with_events never decrease, in the scanner's
\* memory and in the checkpoint row.
C5_Monotone ==
    [][(faults' = 0 /\ crashes' = 0)
          => /\ NotBelow(AggregatedState(self'), AggregatedState(self))
             /\ NotBelow(Persisted', Persisted)]_vars

\* C6: within one processed range the blocks with events are folded and
\* checkpointed in strictly ascending block-number order.
C6_AscendingBlocks ==
    \A i, j \in 1..Len(order) : i < j => order[i] < order[j]

RangeTooLargeAtFetch ==
    {<<t, "fetch">> : t \in {"AsyncioTimeoutError", "TooManyResults"}}

\* C8: a cycle whose fetch signals RangeTooLarge changes only the window:
\* from_block, the instance's aggregates, the three tables, the chain
\* connection and the disconnected gauge are unchanged, no reconnection is
\* started, and the next cycle starts at the same from_block.
C8_RangeTooLargeFrame ==
    [][caught' \in RangeTooLargeAtFetch
          => /\ UNCHANGED <<from_block, self, aggregated_data, reward, holder,
                            connection, alert_not_connected>>
             /\ pc' # "reconnect"
             /\ current_range_of_blocks' <= current_range_of_blocks]_vars

\* RangeTooLarge signalled by a fetch after events were folded: the window is
\* shrunk and the aggregates are still there
C8_Witness ==
    /\ caught \in RangeTooLargeAtFetch
    /\ outcome = "decreased"
    /\ pc = "top" /\ call = 1
    /\ current_range_of_blocks < max_range_of_blocks
    /\ self.deposited > 0
    /\ aggregated_data # <<>>
    /\ connection = 0 /\ ~alert_not_connected

C10_WindowRestored ==
    /\ current_range_of_blocks <= max_range_of_blocks
    /\ (pc = "top" /\ outcome = "processed")
          => current_range_of_blocks = max_range_of_blocks


Min(a, b) == IF a < b THEN a ELSE b

\* C11: every range the scanner requests has from = from_block and
\* to = min(from_block + window, H) for the finalized head H of the cycle, so
\* from < to <= H for every installed filter; with H <= from_block no range is
\* requested and from_block and the window stay as they are.
C11_RequestedRange ==
    [][/\ (nimbus_event_filter' # nimbus_event_filter /\ nimbus_event_filter' # NoFilter)
             => /\ nimbus_event_filter'.fromBlock = from_block
                /\ nimbus_event_filter'.toBlock =
                      Min(from_block + current_range_of_blocks, head)
       /\ nimbus_event_filter' # NoFilter
             => /\ nimbus_event_filter'.fromBlock < nimbus_event_filter'.toBlock
                /\ nimbus_event_filter'.toBlock <= head'
       /\ (pc = "top" /\ head <= from_block /\ pc' # "init")
             => UNCHANGED <<from_block, current_range_of_blocks, nimbus_event_filter>>]_vars

\* a range that the head cuts short is being folded
C11_Witness ==
    /\ pc = "fold"
    /\ nimbus_event_filter # NoFilter
    /\ nimbus_event_filter.fromBlock = from_block
    /\ nimbus_event_filter.toBlock = to_block
    /\ to_block = head
    /\ head < from_block + current_range_of_blocks


C13_DisconnectedGauge ==
    [][/\ alert_not_connected <=> pc = "reconnect"
       /\ alert_not_connected' <=> pc' = "reconnect"
       /\ (faults' > faults /\ caught' # NoException
              /\ ~(caught'[2] = "fetch" /\ ExceptBranch(caught'[1]) = "decrease"))
             => alert_not_connected'
       /\ (~alert_not_connected /\ alert_not_connected')
             => (caught' # NoException /\ ExceptBranch(caught'[1]) # "decrease")
       /\ (alert_not_connected /\ ~alert_not_connected')
             => \/ rebuild[1] = "provider" /\ connection' = connection + 1
                \/ pc' = "init"]_vars

\* C14: a connection rebuild makes a bounded number of attempts over the
\* endpoint list and then returns control to its caller, even when no endpoint
\* ever becomes reachable: a thread that is scheduled again and again leaves
\* the rebuild it has entered.
C14_RebuildReturns ==
    \A t \in Threads : (threads[t].pc = "rebuild") ~> (threads[t].pc # "rebuild")

\* C15: a fault raised inside a poll cycle, recognized or not (the
\* RangeTooLarge signal of the log fetch has its own handling), is caught in
\* the cycle and routed through the reconnection path: the thread keeps
\* running, from_block is not advanced by the failed cycle and the cycle that
\* follows the rebuild starts at the same from_block.
C15_FaultsReconnect ==
    [][/\ (faults' > faults /\ caught' # NoException
              /\ ~(caught'[2] = "fetch" /\ ExceptBranch(caught'[1]) = "decrease"))
             => (pc' = "reconnect" /\ from_block' = from_block)
       /\ (pc = "reconnect" /\ pc' # "init")
             => (pc' \in {"reconnect", "top"} /\ from_block' = from_block)]_vars

\* C16: the thread-failed gauge of a loop is raised only when the loop fails
\* again within TIME_THRESHOLD_SECS of its previously recorded failure: when
\* the gauge of a label is raised, the time recorded for that label is less
\* than TIME_THRESHOLD_SECS old, and the gauges and times of the other labels
\* are left alone.
C16_AlertWithinWindow ==
    [][\A t \in Threads :
          (~alert_thread_is_failed[t] /\ alert_thread_is_failed'[t])
             => /\ prev_exception_occurred[t] # -1
                /\ total_seconds(now, prev_exception_occurred[t]) < TIME_THRESHOLD_SECS
                /\ \A u \in Threads \ {t} :
                      /\ alert_thread_is_failed'[u] = alert_thread_is_failed[u]
                      /\ prev_exception_occurred'[u] = prev_exception_occurred[u]]_vars

\* C17: once the handler has set the stop flag of every thread, every thread
\* exits, the handler's joins return and the process exits, whatever the
\* endpoints and the chain do, provided the threads and the handler are
\* scheduled again and again.
C17_Termination ==
    (\A t \in Threads : threads[t].stop)
        ~> (handler.pc = "done" /\ \A t \in Threads : ~is_alive(t))

\* C18: a thread exits on the stop flag only at its stop check (the scanner: at
\* the top of _run, before the head is read), never while it folds or persists
\* a block or runs a query; the flag is read only by a thread that holds its
\* own lock, and it is written only while that thread does not hold the lock.
C18_SafePoints ==
    [][\A t \in Threads :
          /\ (threads[t].pc = "check") <=> (threads[t].lock = t)
          /\ (threads'[t].pc = "check") <=> (threads'[t].lock = t)
          /\ (threads[t].pc # "exited" /\ threads'[t].pc = "exited")
                => /\ threads[t].pc = "check"
                   /\ threads[t].lock = t
                   /\ threads[t].stop
                   /\ ~threads[t].query
                   /\ threads'[t].lock = "free"
          /\ (threads[t].pc = "check" /\ threads'[t].pc # "check")
                => threads'[t].pc = (IF threads[t].stop THEN "exited" ELSE AfterCheck(t))
          /\ (t = Scanner /\ threads'[t].pc = "check") => threads[t].pc \in {"top", "check"}
          /\ (t = Scanner /\ threads[t].pc = "check" /\ ~threads[t].stop)
                => threads'[t].pc \in {"check", "head"}
          /\ threads'[t].stop # threads[t].stop
                => (threads[t].lock = "free" /\ threads'[t].stop)]_vars

\* the scanner has exited at its stop check, its lock is free again, and the
\* other two threads are still running, one of them inside a query
C18_Witness ==
    /\ threads[Scanner].pc = "exited"
    /\ threads[Scanner].stop
    /\ threads[Scanner].lock = "free"
    /\ is_alive(Scalar)
    /\ is_alive(Validators)
    /\ \E t \in Threads : threads[t].query

\* C19: the handler closes the datastore connection only after every thread
\* has terminated (or was never started): no thread is alive, and none is
\* inside or starts a datastore operation, once the connection is closed.
C19_CloseAfterJoin ==
    [][/\ (database_manager.conn = "open" /\ database_manager'.conn = "closed")
             => /\ handler.pc = "close"
                /\ \A t \in Threads : ~is_alive(t) /\ threads[t].stop /\ ~threads[t].query
       /\ database_manager'.conn = "closed"
             => /\ \A t \in Threads : ~is_alive(t)' /\ ~threads'[t].query
                /\ database_manager'.lock = "free"
       /\ database_manager.conn = "closed"
             => (threads' = threads /\ database_manager' = database_manager)]_vars

\* the connection is closed, the handler is about to exit; the scanner had
\* been started and has exited, the validator poller was never started
C19_Witness ==
    /\ database_manager.conn = "closed"
    /\ handler.pc = "exit"
    /\ threads[Scanner].pc = "exited"
    /\ threads[Validators].pc = "new"

\* C20: at most one thread at a time executes a query on the shared
\* connection: a thread is inside a method of DatabaseManager exactly while it
\* holds the handle's lock, from the start of the query to its end.
C20_OneQueryAtATime ==
    /\ Cardinality({t \in Threads : threads[t].query}) <= 1
    /\ \A t \in Threads : threads[t].query <=> database_manager.lock = t
    /\ \A t \in Threads : threads[t].query => AfterQuery(t, threads[t].pc) # {}

\* the scanner is inside a query while the snapshot poller and the validator
\* poller both stand before a call of DatabaseManager
C20_Witness ==
    /\ threads[Scanner].query
    /\ threads[Scanner].pc = "persist"
    /\ threads[Scalar].pc = "work"
    /\ threads[Validators].pc = "persist"
    /\ database_manager.lock = Scanner

\* C21: calculate_apr leaves out every rate outside [apr_min, apr_max]; when
\* no rate of any ledger is retained (or there is no ledger) it returns the
\* previous value; otherwise it returns the mean, over the ledgers that have a
\* retained rate, of the mean of the ledger's retained rates.
RetainedRates(rows, a) ==
    {i \in 1..Len(rows) :
        LET x == row_apr(rows[i], a.eras_per_day)
        IN ~FracLess(x, a.apr_min) /\ ~FracLess(a.apr_max, x)}

RECURSIVE SumOver(_, _)
SumOver(S, f) ==
    IF S = {} THEN <<0, 1>>
    ELSE LET x == CHOOSE y \in S : TRUE IN FracAdd(f[x], SumOver(S \ {x}, f))

LedgerMean(rows, a) ==
    LET R == RetainedRates(rows, a)
        rate == [i \in R |-> row_apr(rows[i], a.eras_per_day)]
    IN FracDiv(SumOver(R, rate), Cardinality(R))

ExpectedApr(a) ==
    LET L == {l \in DOMAIN a.rewards : RetainedRates(a.rewards[l], a) # {}}
        mean == [l \in L |-> LedgerMean(a.rewards[l], a)]
    IN IF L = {} THEN a.total_apr ELSE FracDiv(SumOver(L, mean), Cardinality(L))

C21_AprClamped ==
    result # NoResult => result[1] = ExpectedApr(args)

\* two rows of one ledger with rates 146 and -73 under the bounds [0, 1]: the
\* previous value 1/4 is returned
C21_Witness ==
    /\ result = <<(<<1, 4>>)>>
    /\ args.total_apr = <<1, 4>>
    /\ args.apr_min = <<0, 1>>
    /\ args.apr_max = <<1, 1>>
    /\ DOMAIN args.rewards = {"L1"}
    /\ Len(args.rewards["L1"]) = 2
    /\ row_apr(args.rewards["L1"][1], args.eras_per_day) = <<146, 1>>
    /\ row_apr(args.rewards["L1"][2], args.eras_per_day) = <<0 - 73, 1>>

\* two ledgers with retained rates, one of them with an excluded rate as
\* well: the mean of the ledgers' means is returned
C21_WitnessMean ==
    /\ result = <<(<<123, 200>>)>>
    /\ DOMAIN args.rewards = {"L1", "L2"}
    /\ Len(args.rewards["L1"]) = 2
    /\ Len(args.rewards["L2"]) = 1
    /\ [i \in 1..2 |-> row_apr(args.rewards["L1"][i], args.eras_per_day)] = << <<146, 1>>, <<73, 100>> >>
    /\ [i \in 1..1 |-> row_apr(args.rewards["L2"][i], args.eras_per_day)] = << <<1, 2>> >>

\* C22: the checkpoint table holds at most one row in every state, and one
\* row from the first successful update_aggregated_data on: an update replaces
\* the row as a whole, and an update that fails leaves the table as it was.
C22_OneCheckpointRow ==
    [][/\ Len(aggregated_data) <= 1
       /\ Len(aggregated_data') <= 1
       /\ Len(aggregated_data) = 1 => Len(aggregated_data') = 1
       /\ aggregated_data' # aggregated_data
             => /\ args'[1] = "update_aggregated_data"
                /\ args'[3] = 0
                /\ aggregated_data' = <<args'[2]>>
       /\ (args' # args /\ args'[1] = "update_aggregated_data")
             => aggregated_data' = (IF args'[3] = 0 THEN <<args'[2]>> ELSE aggregated_data)]_vars

\* an update whose INSERT failed after its DELETE, on a table that holds the
\* row of an earlier update: that row is still there
C22_Witness ==
    /\ Len(aggregated_data) = 1
    /\ args # NoArgs
    /\ args[1] = "update_aggregated_data"
    /\ args[3] = 2
    /\ args[2] # aggregated_data[1]

\* C24: add_holder of an address that is already in the holder table leaves
\* the table and the holder count as they were and raises nothing to the
\* caller; add_holder of a new address adds exactly that address.
C24_InsertIfAbsent ==
    [][(args' # args /\ args'[1] = "add_holder")
          => /\ result'[1] = "none"
             /\ args'[2] \in holder
                   => /\ holder' = holder
                      /\ get_holders_number(holder', FALSE) = get_holders_number(holder, FALSE)
             /\ (args'[2] \notin holder /\ ~args'[3]) => holder' = holder \cup {args'[2]}
             /\ holder' \subseteq holder \cup {args'[2]}]_vars

\* add_holder has just been called for an address that the table of two
\* addresses already held: the INSERT raised UniqueViolation, which was logged
C24_Witness ==
    /\ args # NoArgs
    /\ args[1] = "add_holder"
    /\ args[2] \in holder
    /\ Cardinality(holder) = 2
    /\ result = <<"none", "UniqueViolation">>

\* C23: folding the Rewards/Losses events of a block whose rows are already
\* in the reward table (the block is processed a second time) leaves the
\* reward table and the lifetime reward and loss totals as they were.
InLedger(b) == \E i \in 1..Len(reward) : reward[i].block = b

C23_RefoldIdempotent ==
    [][/\ (pc = "ledger" /\ InLedger(order[idx])) => reward' = reward
       /\ (pc = "fold" /\ pc' = "ledger" /\ InLedger(order[idx]))
             => (self'.rewards = self.rewards /\ self'.losses = self.losses)]_vars

\* C25: in every per-block group of the classified events, each list is in
\* ascending log-index order and holds, for each raw log of its kind in the
\* block, the event decoded from that very log, when the provider returns the
\* logs of a block in log-index order; also when a receipt holds several logs
\* of the same kind.
LogIndexes(list) == [i \in 1..Len(list) |-> list[i].logIndex]

\* the log indexes of the logs of kind key in block b, ascending
RECURSIVE IndexesOfKind(_, _, _)
IndexesOfKind(layout, key, i) ==
    IF i > Len(layout) THEN <<>>
    ELSE (IF layout[i][1] = key THEN <<i>> ELSE <<>>) \o IndexesOfKind(layout, key, i + 1)

C25_LogIndexOrder ==
    result # NoResult =>
        \A n \in 1..Len(result[1].by_blocks), k \in 1..Len(EventKeys) :
            LET group == result[1].by_blocks[n]
                list == group.lists[k]
            IN /\ \A i \in 1..Len(list), j \in 1..Len(list) :
                     i < j => list[i].logIndex <= list[j].logIndex
               /\ LogIndexes(list) = IndexesOfKind(args.blocks[group.block_number], EventKeys[k], 1)
               /\ \A i \in 1..Len(list) :
                     /\ list[i].blockNumber = group.block_number
                     /\ EventKeys[k] # "Transfer"
                           => list[i].amount = 10 * group.block_number + list[i].logIndex

\* block 2 holds two Rewards logs of one transaction, the provider answers
\* with block 2 first: the group of block 2 lists the two decoded events in
\* log-index order
C25_Witness ==
    /\ result # NoResult
    /\ args.po = "desc"
    /\ args.blocks[1] # <<>>
    /\ args.blocks[2] = << <<"Rewards", 1>>, <<"Rewards", 1>> >>
    /\ \E n \in 1..Len(result[1].by_blocks) :
          /\ result[1].by_blocks[n].block_number = 2
          /\ LogIndexes(result[1].by_blocks[n].lists[4]) = <<1, 2>>

\* C26: classification is deterministic: classifying the same raw logs twice
\* against the same receipts gives the same per-type lists and the same
\* per-block groups, every raw log is in at most one type list, and the
\* classification changes nothing of the scanner's state.
\* how many events of the lists stand for the raw log (b, i)
Placements(classified, b, i) ==
    IF classified = <<>> THEN 0
    ELSE Cardinality({<<k, j>> \in (1..Len(EventKeys)) \X (1..(2 * MaxLogs + 2)) :
                         /\ j <= Len(classified[k])
                         /\ classified[k][j].blockNumber = b
                         /\ classified[k][j].logIndex = i})

ListedEvents(classified) ==
    IF classified = <<>> THEN 0
    ELSE Cardinality({<<k, j>> \in (1..Len(EventKeys)) \X (1..(4 * MaxLogs + 4)) :
                         j <= Len(classified[k])})

C27_OneCyclePerCall ==
    [][(pc # "init" /\ pc' = "top" /\ call = 1) => call' = 1]_vars

\* C28: at a crash point, when the checkpoint row names block B as the last
\* block with events, the reward table holds a row for every Rewards and
\* Losses event of block B.
LedgerEventsOf(b) ==
    SelectSeq(LogsIn(b, b), LAMBDA e : e.event \in {"Rewards", "Losses"})

RowsOfBlock(b) == SelectSeq(reward, LAMBDA r : r.block = b)

C28_CheckpointedRowsPresent ==
    (pc = "init" /\ crashes > 0 /\ aggregated_data # <<>>) =>
        LET B == aggregated_data[1].last_block_number_with_events
        IN Len(RowsOfBlock(B)) >= Len(LedgerEventsOf(B))

\* C29: right after the recovery that follows a restart, the lifetime rewards
\* total is the sum of the reward amounts and the lifetime losses total the sum
\* of the loss amounts of the ledger's entries, and neither is negative.
C29_RecoveredTotals ==
    (crashes > 0 /\ pc = "top" /\ call = 1 /\ outcome = "none") =>
        /\ self.rewards >= 0
        /\ self.losses >= 0
        /\ self.rewards = SumRewards(reward, TRUE)
        /\ self.losses = 0 - SumRewards(reward, FALSE)

\* C30: when the aggregated_data table holds a checkpoint row at startup, the
\* recovery does not start from the configured first block with zeroed
\* totals, whether or not a read of the recovery fails.
C30_NoGenesisWithCheckpoint ==
    (args # NoArgs /\ args[1] = "run" /\ aggregated_data # <<>>) =>
        LET recovered == result[2]
        IN ~(/\ recovered[1] = initial_block_num_aggregated_metrics
             /\ AggregatedState(recovered[2]).deposited = 0
             /\ AggregatedState(recovered[2]).deposited_events_num = 0
             /\ AggregatedState(recovered[2]).redeemed = 0
             /\ AggregatedState(recovered[2]).redeemed_events_num = 0)

\* C31: when the thread keeps running, the head keeps advancing, nothing but
\* "too many results" is raised and the provider answers every query over at
\* most k >= 2 blocks, the cursor from_block gets past every finalized height
\* that another block follows, up to the last but one height of the run:
\* shrinking and resetting the window never blocks it for good.
C31_Progress ==
    <>(from_block > MaxBlock - 1)

\* a cycle folds the range [1, 2] with the window shrunk from 3 to 1 while
\* the head is at the last block
C31_Witness ==
    /\ args = <<"limit", 2>>
    /\ max_range_of_blocks = 3
    /\ pc = "fold"
    /\ head = MaxBlock
    /\ current_range_of_blocks = 1
    /\ to_block = 2

\* ... and the cursor has got to the last block later
C31_WitnessPassed ==
    /\ args = <<"limit", 2>>
    /\ max_range_of_blocks = 3
    /\ head = MaxBlock
    /\ from_block >= MaxBlock
    /\ Len(reward) > 0

\* C32: a get_all_entries that returns without exception returns the
\* provider's answer sorted ascending by block number, the logs of one block in
\* the provider's order; when the list is not empty the filter's from_block is
\* the last block number + 1 and from_block <= to_block; when it is empty
\* from_block and to_block are as before.
InBlock(list, b) == SelectSeq(list, LAMBDA e : e.blockNumber = b)

C32_SortedAndAdvanced ==
    [][(args' # NoArgs /\ args'[1] = "get_all_entries" /\ filters' # filters
          /\ result'[1] = "none")
         => LET returned == result'[2]
                answer == IF args'[3][Len(args'[3])] = "ok"
                          THEN filter_logs(nimbus_event_filter'.filter, args'[2])
                          ELSE <<>>
            IN /\ Len(returned) = Len(answer)
               /\ \A i \in 1..Len(returned), j \in 1..Len(returned) :
                     i < j => returned[i].blockNumber <= returned[j].blockNumber
               /\ \A b \in 1..MaxBlock : InBlock(returned, b) = InBlock(answer, b)
               /\ returned # <<>> =>
                     /\ nimbus_event_filter'.from_block
                           = returned[Len(returned)].blockNumber + 1
                     /\ nimbus_event_filter'.from_block <= nimbus_event_filter'.to_block
               /\ returned = <<>> =>
                     /\ nimbus_event_filter'.from_block = nimbus_event_filter.from_block
                     /\ nimbus_event_filter'.to_block = nimbus_event_filter.to_block]_vars

\* the provider answers with block 3 before block 1 and block 1 holds two
\* logs: the three logs are returned in block order and from_block is 4
C32_Witness ==
    /\ args # NoArgs
    /\ args[1] = "get_all_entries"
    /\ args[2] = "desc"
    /\ result[1] = "none"
    /\ Len(result[2]) = 3
    /\ result[2][1].blockNumber = 1
    /\ result[2][2].blockNumber = 1
    /\ result[2][3].blockNumber = 3
    /\ nimbus_event_filter.from_block = 4
    /\ nimbus_event_filter.to_block = 4

\* C33: when get_all_entries has returned, or raised "too many results" or a
\* timeout, the filter is uninstalled and an uninstall of its current handle
\* was sent; an uninstall that fails does not fail a fetch whose query was
\* answered; no query goes to a handle the filter has uninstalled before, and
\* an update of the range installs a handle that was never uninstalled.
C33_UninstalledAfterFetch ==
    [][/\ (args' # NoArgs /\ args'[1] = "get_all_entries" /\ filters' # filters)
            => /\ nimbus_event_filter'.uninstalled
               /\ nimbus_event_filter'.filter.filter_id \in filters'.attempted
               /\ args'[3][Len(args'[3])] \in {"ok", "stale"} => result'[1] = "none"
               /\ \A i \in 1..Len(result'[3]) : result'[3][i] \notin filters.attempted
       /\ (args' # NoArgs /\ args'[1] = "update_filter_range" /\ filters' # filters
             /\ result'[1] = "none")
            => /\ ~nimbus_event_filter'.uninstalled
               /\ nimbus_event_filter'.filter.filter_id \notin filters.attempted
               /\ nimbus_event_filter'.filter.filter_id \in filters'.installed]_vars

\* C34: a range with from_block > to_block, given to the constructor or to
\* update_filter_range, makes the call fail and installs no handle.
C34_InvertedRangeFails ==
    [][(/\ args' # NoArgs
        /\ args'[1] \in {"__init__", "update_filter_range"}
        /\ args'[2] > args'[3]
        /\ (args' # args \/ filters' # filters))
         => /\ result'[1] # "none"
            /\ filters'.next_id = filters.next_id
            /\ filters'.installed \subseteq filters.installed]_vars

\* C40: the filter the scanner installs at the provider has the five event
\* signatures Transfer, Deposited, Redeemed, Rewards and Losses as its topic
\* set, for every range.
C40_FiveTopics ==
    nimbus_event_filter # NoFilter =>
        /\ nimbus_event_filter.topics = EventNames
        /\ nimbus_event_filter.filter.topics = EventNames

\* C35: a cycle whose range holds no protocol event is not an error: the
\* classification is the empty map, from_block advances to to_block + 1, and
\* the instance's totals, its last block with events and its APR, the
\* checkpoint row, the reward ledger and the holder set stay as they are.
EmptyRangeCycle ==
    /\ pc = "top"
    /\ head > from_block
    /\ pc' = "top"
    /\ outcome' = "processed"

C35_EmptyRangeAdvances ==
    [][EmptyRangeCycle =>
          /\ caught' = NoException
          /\ events' = <<>>
          /\ from_block' = ToBlock + 1
          /\ UNCHANGED <<self, dbVars>>]_vars

\* C35, without the cursor: the frame of an empty cycle
C35_EmptyRangeFrame ==
    [][EmptyRangeCycle =>
          /\ caught' = NoException
          /\ events' = <<>>
          /\ UNCHANGED <<self, dbVars>>]_vars

\* C36: once a rebuild has replaced the scanner's connection, the event filter
\* works through the rebuilt connection: while the logs of a fetch are folded,
\* the filter that fetched them holds the scanner's current connection.
C36_FilterOnRebuiltConnection ==
    (pc = "fold" /\ nimbus_event_filter # NoFilter)
        => nimbus_event_filter.w3 = connection

\* C37: once the thread-failed alert gauge of a loop is true it stays true:
\* no step, a successful cycle of the loop and remove_thread included, sets
\* it back to false.
C37_AlertStaysSet ==
    [][\A t \in Threads :
          alert_thread_is_failed[t] => alert_thread_is_failed'[t]]_vars

\* C37: the gauge of a loop is true and a later cycle of the loop has called
\* remove_thread and returned
C37_Witness ==
    \E t \in Threads :
        /\ alert_thread_is_failed[t]
        /\ prev_exception_occurred[t] = -1
        /\ wrapper[t] = "record"

\* C38: the metrics HTTP server is started only once the scanner and the
\* scalar poller have both set their initialized flag.
C38_ServerAfterBothInitialized ==
    main.http_server => (self.initialized /\ scalar.initialized)

\* C39: a rate is computed only for the ledger entries whose denominator
\* balance - amount is not zero: calculate_apr returns what it returns for
\* the same ledgers without their zero-denominator entries, whatever apr_min
\* and apr_max are.
NonZeroDenominator(rewards) ==
    [k \in DOMAIN rewards |->
        SelectSeq(rewards[k], LAMBDA row : row.balance - row.reward # 0)]

C39_ZeroDenominatorNoRate ==
    result # NoResult =>
        result[1] = calculate_apr(args.total_apr, NonZeroDenominator(args.rewards),
                                  args.eras_per_day, args.apr_min, args.apr_max)
====
